---- MODULE Spec2Model ----
(***************************************************************************)
(* f-chat-rs: the Session state machine (src/src/session.rs) and the       *)
(* Client event dispatcher (src/src/client.rs).                            *)
(*                                                                         *)
(* A session is one websocket bound to one character.  Its life is         *)
(*   connect_internal (dial, send IDN, read the IDN answer)                *)
(*   read_variables   (accumulate VAR frames until the first non-VAR)      *)
(*   start_event_loop (one frame at a time through handle_command, the     *)
(*                     forwarded ones put on the client's event channel)   *)
(* and the client's single dispatch task pops one event at a time.         *)
(*                                                                         *)
(* The server (the frames it sends, the moment it resets the transport),   *)
(* the transport's write failures, the cache's "changed?" answers and the  *)
(* iteration order of the DashSet are inputs, drawn with \E.               *)
(***************************************************************************)
EXTENDS Integers, Sequences, FiniteSets, TLC

(***************************************************************************)
(* Bounds of the model.                                                    *)
(***************************************************************************)
\* Session objects (sockets) ever created, by connect or by reconnect.
MaxSessions == 2
\* Session objects of the longest chain of reconnects followed: the session
\* connected, its replacement, the replacement's replacement.
MaxChain == 3
\* Calls of Client::connect.
MaxConnects == 1
\* Frames read by all event loops together.
MaxFrames == 2
\* VAR frames read by all variable negotiations together.
MaxVars == 2
\* Tickets the ticket endpoint issues, the one of ClientBuilder::init included.
MaxTickets == 3
\* How far the clock runs, in seconds.
MaxTime == 3001

(***************************************************************************)
(* Program constants.                                                      *)
(***************************************************************************)
\* client.rs:129  channel(8): the capacity of the client's event channel.
ChannelCapacity == 8
\* protocol.rs:582  ProtocolError::Other, the num_enum default.
Other == 9999
\* client.rs:78  Duration::from_secs(25*60): the age past which a ticket is expired.
ExpiryAfter == 1500

SessIds == 1..MaxChain

Characters == {"Alice", "Bob"}
OwnCharacters == {"Alice"}
Peers == {"Bob"}
Channels == {"Frontpage", "ADH-abc"}
\* data.rs:449  enum TypingStatus
TypingStatus == {"clear", "paused", "typing"}
Absent == "absent"
None == "-"

\* protocol.rs:525  the discriminants of enum ProtocolError
KnownCodes ==
    (0..11) \cup {13} \cup (15..21) \cup {26, 28} \cup (30..33) \cup {36, 38, 39, 40, 41, 42,
     44, 45, 47, 48, 49, 50, 54, 56, 59, 60, 61, 62, 64, 67, 72}
    \cup {-1, -2, -3, -4, -5, -10, Other}

\* ProtocolError::from(i32): num_enum::FromPrimitive with #[num_enum(default)] Other
ProtocolErrorFrom(n) == IF n \in KnownCodes THEN n ELSE Other

\* A variant of the classification that lets InternalError reconnect.
is_fatal_but_internal(e) == e \in {2, 9, 30, 31, 33, 39, 40}
\* ProtocolError::is_fatal
is_fatal(e) == e \in {2, 9, 30, 31, 33, 39, 40, -1}

(***************************************************************************)
(* Frames.  A ServerCommand is a record with one layout for every tag.     *)
(***************************************************************************)
Frame(cmd) ==
    [cmd |-> cmd, channel |-> None, character |-> None, status |-> None,
     number |-> 0, variable |-> None, value |-> 0, characters |-> <<>>]

NoFrame == Frame(None)
Ping == Frame("PIN")
Hello == Frame("HLO")
Connected == Frame("CON")
Message == Frame("MSG")
Error(n) == [Frame("ERR") EXCEPT !.number = n]
IdentifySuccess(c) == [Frame("IDN") EXCEPT !.character = c]
JoinedChannel(ch, c) == [Frame("JCH") EXCEPT !.channel = ch, !.character = c]
LeftChannel(ch, c) == [Frame("LCH") EXCEPT !.channel = ch, !.character = c]
Typing(c, st) == [Frame("TPN") EXCEPT !.character = c, !.status = st]
Variable(k, v) == [Frame("VAR") EXCEPT !.variable = k, !.value = v]
\* The commands of protocol.rs:216 whose arm in Client::dispatch is one cache
\* mutation and one notification; payloads the dispatcher only passes on
\* (ops, description, users, mode, gender, message, rolls) are left out.
GlobalOps == Frame("ADL")
GlobalOpped(c) == [Frame("AOP") EXCEPT !.character = c]
GlobalDeopped(c) == [Frame("DOP") EXCEPT !.character = c]
ChannelDescription(ch) == [Frame("CDS") EXCEPT !.channel = ch]
ChannelData(ch) == [Frame("ICH") EXCEPT !.channel = ch]
Opped(c, ch) == [Frame("COA") EXCEPT !.character = c, !.channel = ch]
Deopped(c, ch) == [Frame("COR") EXCEPT !.character = c, !.channel = ch]
Ops(ch) == [Frame("COL") EXCEPT !.channel = ch]
ChannelMode(ch) == [Frame("RMO") EXCEPT !.channel = ch]
Offline(c) == [Frame("FLN") EXCEPT !.character = c]
NewConnection(c) == [Frame("NLN") EXCEPT !.character = c]
Status(c) == [Frame("STA") EXCEPT !.character = c]
Ad(c, ch) == [Frame("LRP") EXCEPT !.character = c, !.channel = ch]
PrivateMessage(c) == [Frame("PRI") EXCEPT !.character = c]
Roll(c, ch) == [Frame("RLL") EXCEPT !.character = c, !.channel = ch]
ListOnline(cs) == [Frame("LIS") EXCEPT !.characters = cs]
\* The commands the dispatcher only logs, and FKS beside them.
ProfileData == Frame("PRD")
Kinks == Frame("KID")
Uptime == Frame("UPT")
Search == Frame("FKS")

\* protocol.rs:426  enum Variable, by wire name
HandledVars ==
    {"chat_max", "priv_max", "lfrp_max", "lfrp_flood", "msg_flood", "sta_flood",
     "icon_blacklist"}
UnhandledVars == {"cds_max", "permissions"}
VarValues == {1, 2}
\* ERR numbers the server sends here: fatal, fatal, not fatal, not in the enum.
ErrNumbers == {2, 9, 5, 12}

AllVarFrames == {Variable(k, v) : k \in HandledVars \cup UnhandledVars, v \in VarValues}
LeanVarFrames == {Variable("chat_max", 1)}

NonVarFrames ==
    {Ping, Hello, Connected, Message}
    \cup {Error(n) : n \in ErrNumbers}
    \cup {IdentifySuccess(c) : c \in Characters}
    \cup {JoinedChannel(ch, c) : ch \in Channels, c \in Characters}
    \cup {LeftChannel(ch, c) : ch \in Channels, c \in Characters}
    \cup {Typing(c, st) : c \in Peers, st \in TypingStatus}

ServerFrames == NonVarFrames \cup LeanVarFrames

\* One frame of each cache-gated command, and LIS with no, one and two entries.
CacheFrames ==
    {GlobalOps, GlobalOpped("Bob"), GlobalDeopped("Bob"), ChannelDescription("Frontpage"),
     ChannelData("Frontpage"), Opped("Bob", "Frontpage"), Deopped("Bob", "Frontpage"),
     Ops("Frontpage"), ChannelMode("Frontpage"), Offline("Bob"), NewConnection("Bob"),
     Status("Bob"), Ad("Bob", "Frontpage"), PrivateMessage("Bob"), Roll("Bob", "Frontpage"),
     Message, ListOnline(<<>>), ListOnline(<<"Bob">>), ListOnline(<<"Bob", "Alice">>)}
\* How the sink can fail while reconnect re-joins the channels.
Faults == {"none", "feed", "flush"}

\* PRD, KID, UPT and FKS as the server sends them.
QuietFrames == {ProfileData, Kinks, Uptime, Search}

\* Client commands written on a socket.
ClientFrame(cmd, ch, c) == [cmd |-> cmd, channel |-> ch, character |-> c]
Identify(c) == ClientFrame("IDN", None, c)
Pong == ClientFrame("PIN", None, None)
JoinChannel(ch) == ClientFrame("JCH", ch, None)

\* session.rs:13  struct Variables, #[derive(Default)]
DefaultVariables ==
    [chat_max |-> 0, priv_max |-> 0, ad_max |-> 0, chat_cooldown |-> 0,
     ad_cooldown |-> 0, status_cooldown |-> 0, icon_blacklist |-> 0]

\* session.rs:25  enum SessionEvent, inside session.rs:33 struct Event
Event(s, kind) ==
    [session |-> s, event |-> kind, command |-> NoFrame, err |-> 0, error |-> None]
EvReconnect(s) == Event(s, "Reconnect")
EvDisconnected(s, e) == [Event(s, "Disconnected") EXCEPT !.err = e]
EvCommand(s, f) == [Event(s, "Command") EXCEPT !.command = f]
EvError(s, err) == [Event(s, "Error") EXCEPT !.error = err]

VARIABLES
    pc,               \* per session: where its socket is in the life cycle
    character,        \* Session.character
    channels,         \* Session.channels
    private_messages, \* Session.private_messages
    variables,        \* Session.variables (the local vars while negotiating)
    last_err,         \* Session.last_err
    wire,             \* per socket: the client frames that reached the wire
    reconnect_of,     \* per socket: the old session a reconnect dialled it for (0: connect)
    sessions,         \* Client.sessions
    queue,            \* the client's event channel
    dispatcher,       \* the task running Client::start
    obs,              \* what the most recent step read, emitted and called
    disconnects,      \* per session: session_disconnected callbacks received
    varlog,           \* per socket: the VAR frames read while negotiating
    recent_err,       \* per session: the number of the last ERR its event loop read
    inserted,         \* per session: the channels joined and not left, oldest first
    reconnect_err,    \* the sessions built by a reconnect that then returned Err
    nframes,          \* frames read by the event loops so far
    nvars,            \* VAR frames read by the negotiations so far
    token,            \* Client.token: the ticket and the instant it was stored
    now,              \* the clock (Instant::now()), in seconds
    issued,           \* tickets the ticket endpoint has issued so far
    pending,          \* per session: the events it emitted that are not dispatched yet
    cache,            \* Client.cache: the bookmarks and the friends it holds
    app,              \* the application's task: the operation it is in, and where
    active,           \* per task: the listener callback it is inside, if any
    write             \* Session.write: per task, its place at a write half's lock

sessVars == <<pc, character, channels, private_messages, variables, last_err, wire,
              reconnect_of>>
clientVars == <<sessions, queue, dispatcher, disconnects>>
ghostVars == <<obs, varlog, nframes, nvars>>
histVars == <<recent_err, inserted, reconnect_err>>
tokenVars == <<token, now, issued>>
appVars == <<cache, app, active, write>>
vars == <<sessVars, clientVars, ghostVars, histVars, tokenVars, pending, appVars>>

NoPMs == [c \in Characters |-> Absent]

\* client.rs:66  Token::new: the ticket, stored now.
Token_new(ticket) == [ticket |-> ticket, last_updated |-> now]
\* client.rs:77  Token::expired: strictly older than 25 minutes.
expired(t) == now - t.last_updated > ExpiryAfter
\* client.rs:80  Token::update
update(t, new) == [t EXCEPT !.ticket = new, !.last_updated = now]

(***************************************************************************)
(* Client::refresh: fetch a ticket (get_api_ticket) and store it; a fetch  *)
(* that fails returns Err with the token as it was.  Client::refresh_fast: *)
(* the same when the token is expired, Ok with nothing done otherwise.     *)
(*   fetch_ok: whether the ticket endpoint answers.                        *)
(***************************************************************************)
(*   asked: whether the ticket endpoint was asked at all.                   *)
refresh(fetch_ok) ==
    IF fetch_ok
    THEN [result |-> "ok", asked |-> TRUE, token |-> update(token, issued + 1),
          issued |-> issued + 1]
    ELSE [result |-> "RequestError", asked |-> TRUE, token |-> token,
          issued |-> issued]

\* A variant of refresh_fast that refreshes from the age of 25 minutes on.
refresh_fast_at_limit(fetch_ok) ==
    IF now - token.last_updated >= ExpiryAfter
    THEN refresh(fetch_ok)
    ELSE [result |-> "ok", asked |-> FALSE, token |-> token, issued |-> issued]
refresh_fast(fetch_ok) ==
    IF expired(token)
    THEN refresh(fetch_ok)
    ELSE [result |-> "ok", asked |-> FALSE, token |-> token, issued |-> issued]

\* A listener callback or a cache call, as the dispatcher makes it.
Call(cb, s) ==
    [cb |-> cb, session |-> s, channel |-> None, character |-> None, status |-> None,
     err |-> 0, error |-> None, chans |-> {}, listed |-> FALSE, ret |-> FALSE]

NoObs ==
    [kind |-> None, session |-> 0, frame |-> NoFrame, emitted |-> None,
     old_status |-> None, calls |-> <<>>, fed |-> <<>>, old_channels |-> {},
     old_wire |-> 0, result |-> None, asked |-> FALSE,
     old_token |-> [ticket |-> 0, last_updated |-> 0], old_sessions |-> <<>>]

\* The tasks that hold the client: the one running Client::start, and the
\* application's.
Tasks == {"dispatcher", "application"}
\* The application's task outside every operation of the library.
Idle == [op |-> None, pc |-> "idle", arg |-> <<>>, ret |-> <<>>]
EmptyCache == [bookmarks |-> <<>>, friends |-> <<>>]

\* The tasks that write on sockets: two of the application's calling send,
\* the sessions' read tasks answering PIN, the dispatcher inside reconnect.
ReadTask(s) == "read" \o ToString(s)
Writers == {"application", "application2", "dispatcher"} \cup {ReadTask(s) : s \in SessIds}
\* A task that neither holds nor awaits a write half.
NoWrite == [pc |-> "idle", session |-> 0, frames |-> <<>>]

\* The sessions, the channel, the dispatcher and the ticket of a new client.
InitClient ==
    /\ write = [w \in Writers |-> NoWrite]
    /\ pc = [s \in SessIds |-> "unused"]
    /\ character = [s \in SessIds |-> None]
    /\ channels = [s \in SessIds |-> {}]
    /\ private_messages = [s \in SessIds |-> NoPMs]
    /\ variables = [s \in SessIds |-> DefaultVariables]
    /\ last_err = [s \in SessIds |-> Other]
    /\ wire = [s \in SessIds |-> <<>>]
    /\ reconnect_of = [s \in SessIds |-> 0]
    /\ sessions = <<>>
    /\ queue = <<>>
    /\ dispatcher = "idle"
    /\ obs = NoObs
    /\ disconnects = [s \in SessIds |-> 0]
    /\ varlog = [s \in SessIds |-> <<>>]
    /\ recent_err = [s \in SessIds |-> 0]
    /\ inserted = [s \in SessIds |-> <<>>]
    /\ reconnect_err = {}
    /\ nframes = 0
    /\ nvars = 0
    /\ now = 0
    /\ token = Token_new(1)
    /\ issued = 1
    /\ pending = [s \in SessIds |-> <<>>]

Init ==
    /\ InitClient
    /\ cache = EmptyCache
    /\ app = Idle
    /\ active = [t \in Tasks |-> None]

(***************************************************************************)
(* Helpers.                                                                *)
(***************************************************************************)
Unused == {s \in SessIds : pc[s] = "unused"}
\* Session objects are numbered in the order their sockets are dialled.
NewId == CHOOSE s \in Unused : \A t \in Unused : s <= t

\* Every order in which a set can be iterated.
Orders(S) ==
    {q \in [1..Cardinality(S) -> S] : \A i, j \in 1..Cardinality(S) : q[i] = q[j] => i = j}

Prefix(q, k) == SubSeq(q, 1, k)

\* Client::drop_session: retain the sessions of every other character.
drop_session(list, c) == SelectSeq(list, LAMBDA v : character[v] # c)

\* Session::emit_event: event_channel.send(...).await waits for room.
\* A variant of the channel that always has room.
CanEmitAlways == TRUE
CanEmit == Len(queue) < ChannelCapacity
\* A variant of emit_event that puts the event at the front of the channel.
emit_event_first(ev) == <<ev>> \o queue
emit_event(ev) == Append(queue, ev)

\* The events a session has emitted, less the one the dispatcher takes when
\* that is the one the session has had pending longest.
Delivered(ev) ==
    [pending EXCEPT ![ev.session] = IF @ # <<>> /\ Head(@) = ev THEN Tail(@) ELSE @]

(***************************************************************************)
(* Client::connect, first half: refresh the ticket, dial, send IDN.        *)
(***************************************************************************)
Connects == {s \in SessIds : pc[s] # "unused" /\ reconnect_of[s] = 0}

(*   outcome "RequestError":   self.refresh().await? fails, nothing done;   *)
(*   outcome "WebsocketError": the ticket is stored, connect_async fails;  *)
(*   outcome "ok":             the ticket is stored, the socket dialled    *)
(*                             and IDN sent on it.                         *)
(*   limit: how many sockets the calls of connect may open.                *)
Client_connect_upto(c, limit) ==
    /\ UNCHANGED appVars
    /\ UNCHANGED <<histVars, pending, now>>
    /\ Unused # {}
    /\ Cardinality(SessIds \ Unused) < MaxSessions
    /\ Cardinality(Connects) < limit
    /\ issued < MaxTickets
    /\ \E outcome \in {"RequestError", "WebsocketError", "ok"} :
       LET s == NewId
           r == refresh(outcome # "RequestError")
       IN
        /\ token' = r.token
        /\ issued' = r.issued
        /\ IF outcome = "ok"
           THEN /\ pc' = [pc EXCEPT ![s] = "identify"]
                /\ character' = [character EXCEPT ![s] = c]
                /\ wire' = [wire EXCEPT ![s] = <<Identify(c)>>]
                /\ reconnect_of' = [reconnect_of EXCEPT ![s] = 0]
           ELSE UNCHANGED <<pc, character, wire, reconnect_of>>
        /\ obs' = [NoObs EXCEPT !.kind = "connect",
                                !.session = IF outcome = "ok" THEN s ELSE 0,
                                !.result = outcome, !.asked = r.asked,
                                !.old_token = token, !.old_sessions = sessions]
    /\ UNCHANGED <<channels, private_messages, variables, last_err, clientVars, varlog,
                   nframes, nvars>>

Client_connect(c) == Client_connect_upto(c, MaxConnects)

(***************************************************************************)
(* The tail of the Reconnect arm of Client::dispatch when session.reconnect*)
(* returned Err: drop the old session, session_error, sessions_updated.    *)
(***************************************************************************)
ReconnectErrCalls(old, err) ==
    << [Call("session_error", old) EXCEPT !.error = err], Call("sessions_updated", 0) >>

(***************************************************************************)
(* Session::connect_internal, second half: the answer to IDN.  f = NoFrame *)
(* is the stream ending (None).                                            *)
(***************************************************************************)
IdentifyOutcome(s, f) ==
    IF f = NoFrame THEN "MiscConnectionFailure"
    ELSE IF f.cmd # "IDN" THEN "UnexpectedProtocolMessage"
    ELSE IF f.character # character[s] THEN "panic"   \* assert_eq!(character, character_id)
    ELSE "ok"

connect_internal(s) ==
    /\ UNCHANGED appVars
    /\ UNCHANGED <<histVars, tokenVars, pending>>
    /\ pc[s] = "identify"
    /\ \E f \in ServerFrames \cup {NoFrame} :
       LET out == IdentifyOutcome(s, f)
           old == reconnect_of[s]
       IN
        /\ pc' = [pc EXCEPT ![s] = IF out = "ok" THEN "negotiate" ELSE "failed"]
        /\ IF old = 0 \/ out = "ok"
           THEN /\ UNCHANGED clientVars
                /\ obs' = [NoObs EXCEPT !.kind = "identify", !.session = s, !.frame = f,
                                        !.result = out]
           ELSE IF out = "panic"
           THEN /\ dispatcher' = "dead"
                /\ UNCHANGED <<sessions, queue, disconnects>>
                /\ obs' = [NoObs EXCEPT !.kind = "identify", !.session = s, !.frame = f,
                                        !.result = out]
           ELSE /\ dispatcher' = "idle"
                /\ sessions' = drop_session(sessions, character[old])
                /\ UNCHANGED <<queue, disconnects>>
                /\ obs' = [NoObs EXCEPT !.kind = "reconnect", !.session = s, !.frame = f,
                                        !.result = out, !.old_channels = channels[old],
                                        !.calls = ReconnectErrCalls(old, out)]
    /\ UNCHANGED <<character, channels, private_messages, variables, last_err, wire,
                   reconnect_of, varlog, nframes, nvars>>

(***************************************************************************)
(* Session::read_variables: one turn of its loop.  A VAR frame is folded   *)
(* into vars; None is Err(MiscConnectionFailure).  (The first non-VAR      *)
(* frame ends the loop: Session_connect and Session_reconnect below.)      *)
(***************************************************************************)
VarField(k) ==
    CASE k = "chat_max" -> "chat_max"
      [] k = "priv_max" -> "priv_max"
      [] k = "lfrp_max" -> "ad_max"
      [] k = "lfrp_flood" -> "ad_cooldown"
      [] k = "msg_flood" -> "chat_cooldown"
      [] k = "sta_flood" -> "status_cooldown"
      [] k = "icon_blacklist" -> "icon_blacklist"
      [] OTHER -> None

\* A variant of StoreVar with the arms of AdCooldown and ChatCooldown exchanged.
StoreVarSwapped(v, f) ==
    LET fld == VarField(f.variable)
        to == CASE fld = "ad_cooldown" -> "chat_cooldown"
                [] fld = "chat_cooldown" -> "ad_cooldown"
                [] OTHER -> fld
    IN IF to = None THEN v ELSE [v EXCEPT ![to] = f.value]
StoreVar(v, f) ==
    LET fld == VarField(f.variable)
    IN IF fld = None THEN v ELSE [v EXCEPT ![fld] = f.value]

read_variables(s, VarFrames) ==
    /\ UNCHANGED appVars
    /\ UNCHANGED <<histVars, tokenVars, pending>>
    /\ pc[s] = "negotiate"
    /\ \E f \in VarFrames \cup {NoFrame} :
       LET old == reconnect_of[s] IN
       IF f = NoFrame
       THEN /\ pc' = [pc EXCEPT ![s] = "failed"]
            /\ UNCHANGED <<variables, varlog, nvars>>
            /\ IF old = 0
               THEN /\ UNCHANGED clientVars
                    /\ obs' = [NoObs EXCEPT !.kind = "negotiate", !.session = s,
                                            !.result = "MiscConnectionFailure"]
               ELSE /\ dispatcher' = "idle"
                    /\ sessions' = drop_session(sessions, character[old])
                    /\ UNCHANGED <<queue, disconnects>>
                    /\ obs' = [NoObs EXCEPT !.kind = "reconnect", !.session = s,
                                            !.result = "MiscConnectionFailure",
                                            !.old_channels = channels[old],
                                            !.calls = ReconnectErrCalls(old,
                                                          "MiscConnectionFailure")]
       ELSE /\ f.cmd = "VAR"
            /\ nvars < MaxVars
            /\ nvars' = nvars + 1
            /\ variables' = [variables EXCEPT ![s] = StoreVar(@, f)]
            /\ varlog' = [varlog EXCEPT ![s] = Append(@, f)]
            /\ obs' = [NoObs EXCEPT !.kind = "negotiate", !.session = s, !.frame = f,
                                    !.result = "ok"]
            /\ UNCHANGED <<pc, clientVars>>
    /\ UNCHANGED <<character, channels, private_messages, last_err, wire, reconnect_of,
                   nframes>>

(***************************************************************************)
(* Session::connect, from the frame `next` that ends read_variables: the   *)
(* Session is built around the negotiated variables and its event loop     *)
(* spawned; `next` is bound and not used again.  Client::connect then      *)
(* pushes the session on the list.                                         *)
(***************************************************************************)
Session_connect(s) ==
    /\ UNCHANGED appVars
    /\ UNCHANGED <<histVars, tokenVars, pending>>
    /\ pc[s] = "negotiate"
    /\ reconnect_of[s] = 0
    /\ \E next \in NonVarFrames :
        obs' = [NoObs EXCEPT !.kind = "negotiated", !.session = s, !.frame = next,
                             !.result = "ok"]
    /\ pc' = [pc EXCEPT ![s] = "running"]
    /\ channels' = [channels EXCEPT ![s] = {}]
    /\ private_messages' = [private_messages EXCEPT ![s] = NoPMs]
    /\ last_err' = [last_err EXCEPT ![s] = Other]
    /\ sessions' = Append(sessions, s)
    /\ UNCHANGED <<character, variables, wire, reconnect_of, queue, dispatcher,
                   disconnects, varlog, nframes, nvars>>

(***************************************************************************)
(* Session::reconnect, from the frame `next` that ends read_variables, and *)
(* the rest of the Reconnect arm of Client::dispatch.  The new Session is  *)
(* built and its event loop spawned; one JCH per channel of the old        *)
(* session is fed to the sink in the DashSet's iteration order, a failing  *)
(* feed returning Err (the spawned session lives on); the sink is flushed  *)
(* and the flush's Result discarded.  Frames fed are on the wire for       *)
(* certain only once a flush succeeded: after a failure, any prefix.       *)
(* Then: drop the old session, push the new one or session_error,          *)
(* sessions_updated.                                                       *)
(*   fault: "none", "feed" or "flush";  at: the feed that fails (fault =   *)
(*   "feed");  k: the frames that reached the wire before the failure.     *)
(***************************************************************************)
RejoinFrames(order) == [i \in 1..Len(order) |-> JoinChannel(order[i])]

\* A variant of Rejoin iterating the new session's (empty) set: session.channels.
RejoinNewSession(S) == Orders({})
\* for channel in self.channels.iter(): any order the DashSet may yield.
Rejoin(S) == Orders(S)

Session_reconnect(s) ==
    /\ UNCHANGED appVars
    /\ UNCHANGED <<recent_err, inserted, tokenVars, pending>>
    /\ pc[s] = "negotiate"
    /\ reconnect_of[s] # 0
    /\ \E next \in NonVarFrames, order \in Rejoin(channels[reconnect_of[s]]),
          fault \in Faults :
       \E at \in 0..Len(order), k \in 0..Len(order) :
       LET old == reconnect_of[s]
           n == Len(order)
           fed == IF fault = "feed" THEN Prefix(RejoinFrames(order), at - 1)
                  ELSE RejoinFrames(order)
           sent == IF fault = "none" THEN fed ELSE Prefix(fed, k)
           dropped == drop_session(sessions, character[old])
       IN
        /\ fault = "none" => at = 0 /\ k = 0
        /\ fault = "feed" => at \in 1..n /\ k \in 0..(at - 1)
        /\ fault = "flush" => at = 0 /\ k \in 0..n
        /\ pc' = [pc EXCEPT ![s] = "running"]
        /\ channels' = [channels EXCEPT ![s] = {}]
        /\ private_messages' = [private_messages EXCEPT ![s] = NoPMs]
        /\ last_err' = [last_err EXCEPT ![s] = Other]
        /\ wire' = [wire EXCEPT ![s] = @ \o sent]
        /\ sessions' = IF fault = "feed" THEN dropped ELSE Append(dropped, s)
        /\ reconnect_err' = IF fault = "feed" THEN reconnect_err \cup {s} ELSE reconnect_err
        /\ dispatcher' = "idle"
        /\ obs' = [NoObs EXCEPT
                     !.kind = "reconnect", !.session = s, !.frame = next, !.fed = fed,
                     !.old_channels = channels[old],
                     !.result = IF fault = "feed" THEN "WebsocketError" ELSE "ok",
                     !.calls = IF fault = "feed"
                               THEN ReconnectErrCalls(old, "WebsocketError")
                               ELSE << Call("sessions_updated", 0) >>]
    /\ UNCHANGED <<character, variables, reconnect_of, queue, disconnects, varlog,
                   nframes, nvars>>

(***************************************************************************)
(* Session::handle_command: what the session does with a frame before      *)
(* deciding whether to forward it.                                         *)
(*   ret: "true" (forward), "false" (sink) or "err" (SessionError).        *)
(*   write_ok: whether the transport takes the Pong (only PIN writes).     *)
(***************************************************************************)
Handled(s, ret, error) ==
    [ret |-> ret, error |-> error, channels |-> channels[s],
     private_messages |-> private_messages[s], last_err |-> last_err[s],
     wire |-> wire[s]]

TypingForwards(old, new) ==
    \* Some(old) => Ok(old == *status); None => Ok(true)
    IF old = Absent THEN "true" ELSE IF old = new THEN "true" ELSE "false"

\* A variant of PingArm that answers and then forwards: .map(|_| true).
PingForwards(s, write_ok) ==
    [Handled(s, "true", None) EXCEPT !.wire = IF write_ok THEN Append(@, Pong) ELSE @]
PingArm(s, write_ok) ==
    \* session.send(ClientCommand::Pong).await.map(|_| false)
    IF write_ok
    THEN [Handled(s, "false", None) EXCEPT !.wire = Append(@, Pong)]
    ELSE Handled(s, "err", "WebsocketError")

\* A variant of JoinLeaveArm without the test on the character.
JoinLeaveAnyCharacter(s, f) ==
    [Handled(s, "true", None) EXCEPT
        !.channels = IF f.cmd = "JCH" THEN @ \cup {f.channel} ELSE @ \ {f.channel}]
\* A variant of JoinLeaveArm with the test on the character negated.
JoinLeaveOthersOnly(s, f) ==
    IF f.character # character[s]
    THEN [Handled(s, "true", None) EXCEPT
            !.channels = IF f.cmd = "JCH" THEN @ \cup {f.channel} ELSE @ \ {f.channel}]
    ELSE Handled(s, "true", None)
JoinLeaveArm(s, f) ==
    IF f.character = character[s]
    THEN [Handled(s, "true", None) EXCEPT
            !.channels = IF f.cmd = "JCH" THEN @ \cup {f.channel} ELSE @ \ {f.channel}]
    ELSE Handled(s, "true", None)

\* A variant of ErrorArm that does not overwrite a fatal last_err.
ErrorArmKeepsFatal(s, f) ==
    [Handled(s, "true", None) EXCEPT
        !.last_err = IF is_fatal(ProtocolErrorFrom(@)) THEN @ ELSE f.number]
ErrorArm(s, f) == [Handled(s, "true", None) EXCEPT !.last_err = f.number]

\* A variant of HelloArm that forwards: Ok(true).
HelloArmForwards(s) == Handled(s, "true", None)
\* ServerCommand::Hello { .. } => Ok(false)
HelloArm(s) == Handled(s, "false", None)

\* A variant of LateArm that forwards the frame as any other command.
LateArmForwards(s, f) == Handled(s, "true", None)
\* IdentifySuccess => Err(LateIdentifyCommand), Variable => Err(LateVarCommand)
LateArm(s, f) ==
    Handled(s, "err", IF f.cmd = "IDN" THEN "LateIdentifyCommand" ELSE "LateVarCommand")

handle_command(s, f, write_ok) ==
    CASE f.cmd = "PIN" -> PingArm(s, write_ok)
      [] f.cmd = "HLO" -> HelloArm(s)
      [] f.cmd = "CON" -> Handled(s, "true", None)
      [] f.cmd = "ERR" -> ErrorArm(s, f)
      [] f.cmd \in {"JCH", "LCH"} -> JoinLeaveArm(s, f)
      [] f.cmd = "TPN" ->
            [Handled(s, TypingForwards(private_messages[s][f.character], f.status), None)
                EXCEPT !.private_messages = [@ EXCEPT ![f.character] = f.status]]
      [] f.cmd \in {"IDN", "VAR"} -> LateArm(s, f)
      [] OTHER -> Handled(s, "true", None)

(***************************************************************************)
(* The history of a session's joins and leaves, kept beside the model: a   *)
(* JCH naming the session's own character puts the channel last unless it  *)
(* is there; an LCH naming it takes the channel out; nothing else counts.  *)
(***************************************************************************)
Range(q) == {q[i] : i \in 1..Len(q)}

Replay(q, f, own) ==
    IF f.cmd = "JCH" /\ f.character = own
    THEN IF f.channel \in Range(q) THEN q ELSE Append(q, f.channel)
    ELSE IF f.cmd = "LCH" /\ f.character = own
    THEN SelectSeq(q, LAMBDA c : c # f.channel)
    ELSE q

(***************************************************************************)
(* Session::start_event_loop, the Ok(Message::Text) arm: parse, handle,    *)
(* then emit Command (Ok(true)), Error (Err) or nothing (Ok(false)).       *)
(* emit_event awaits room on the channel; the frame is taken, handled and  *)
(* its event sent in one step, taken when there is room.                   *)
(***************************************************************************)
Emitted(ret) ==
    CASE ret = "true" -> "Command" [] ret = "err" -> "Error" [] OTHER -> None

\* protocol.rs:216  the tags of enum ServerCommand
ServerTags ==
    {"ADL", "AOP", "BRO", "CDS", "CHA", "CIU", "CBU", "CKU", "COA", "COL", "CON",
     "COR", "CSO", "CTU", "DOP", "ERR", "FKS", "FLN", "HLO", "ICH", "IDN", "JCH",
     "KID", "LCH", "LIS", "NLN", "IGN", "FRL", "ORS", "PIN", "PRD", "PRI", "MSG",
     "LRP", "RLL", "RMO", "RTB", "SFC", "STA", "SYS", "TPN", "UPT", "VAR"}

\* Text frames that are no ServerCommand: a tag the enum does not have, and a
\* JCH whose body lacks the channel and the character.
UnknownTag == Frame("ZZZ")
Misshapen == Frame("JCH")
UndecodableFrames == {UnknownTag, Misshapen}

\* parse_command: from_value(...).expect(...) gives the command, or panics.
Decodable(f) ==
    /\ f.cmd \in ServerTags
    /\ f.cmd \in {"JCH", "LCH"} => f.channel # None /\ f.character # None
parse_command(f) == [panic |-> ~Decodable(f), command |-> f]

(*   Frames: the frames the server may send; limit: how many are read.     *)
(*   A panic in parse_command unwinds the spawned task: the loop is gone,  *)
(*   nothing is emitted and nothing else of the session changes.           *)
event_loop_upto(s, Frames, limit) ==
    /\ UNCHANGED appVars
    /\ UNCHANGED tokenVars
    /\ pc[s] = "running"
    /\ nframes < limit
    /\ \E f \in Frames, write_ok \in BOOLEAN :
       IF parse_command(f).panic
       THEN
        /\ write_ok
        /\ pc' = [pc EXCEPT ![s] = "panicked"]
        /\ obs' = [NoObs EXCEPT !.kind = "parse", !.session = s, !.frame = f,
                                !.result = "panic"]
        /\ UNCHANGED <<channels, private_messages, last_err, wire, queue,
                       recent_err, inserted, reconnect_err, pending>>
       ELSE
       LET h == handle_command(s, parse_command(f).command, write_ok) IN
        /\ pc' = pc
        /\ f.cmd # "PIN" => write_ok
        /\ h.ret # "false" => CanEmit
        /\ channels' = [channels EXCEPT ![s] = h.channels]
        /\ private_messages' = [private_messages EXCEPT ![s] = h.private_messages]
        /\ last_err' = [last_err EXCEPT ![s] = h.last_err]
        /\ wire' = [wire EXCEPT ![s] = h.wire]
        /\ queue' = CASE h.ret = "true" -> emit_event(EvCommand(s, f))
                      [] h.ret = "err" -> emit_event(EvError(s, h.error))
                      [] OTHER -> queue
        /\ obs' = [NoObs EXCEPT !.kind = "read", !.session = s, !.frame = f,
                                !.emitted = Emitted(h.ret),
                                !.old_status = IF f.cmd = "TPN"
                                               THEN private_messages[s][f.character]
                                               ELSE None,
                                !.old_channels = channels[s],
                                !.old_wire = Len(wire[s]),
                                !.result = IF f.cmd = "PIN" /\ ~write_ok
                                           THEN "write failed" ELSE "ok"]
        /\ recent_err' = [recent_err EXCEPT ![s] = IF f.cmd = "ERR" THEN f.number ELSE @]
        /\ inserted' = [inserted EXCEPT ![s] = Replay(@, f, character[s])]
        /\ UNCHANGED reconnect_err
        /\ pending' = CASE h.ret = "true" -> [pending EXCEPT ![s] = Append(@, EvCommand(s, f))]
                        [] h.ret = "err" -> [pending EXCEPT ![s] = Append(@, EvError(s, h.error))]
                        [] OTHER -> pending
    /\ nframes' = nframes + 1
    /\ UNCHANGED <<character, variables, reconnect_of, sessions, dispatcher,
                   disconnects, varlog, nvars>>

event_loop(s, Frames) == event_loop_upto(s, Frames, MaxFrames)

start_event_loop(s) == event_loop(s, ServerFrames)

(***************************************************************************)
(* Session::start_event_loop, the ResetWithoutClosingHandshake arm: the    *)
(* server closed the connection.  The stream ends here.                    *)
(***************************************************************************)
CloseEvent(s) ==
    LET e == ProtocolErrorFrom(last_err[s])
    IN IF is_fatal(e) THEN EvDisconnected(s, e) ELSE EvReconnect(s)

\* A variant of the stream that goes on yielding after the reset.
StreamGoesOn == "running"
\* read.for_each(...): after the reset the stream yields None, the task ends.
StreamEnded == "closed"

ResetWithoutClosingHandshake(s) ==
    /\ UNCHANGED appVars
    /\ UNCHANGED <<histVars, tokenVars>>
    /\ pc[s] = "running"
    /\ CanEmit
    /\ pc' = [pc EXCEPT ![s] = StreamEnded]
    /\ queue' = emit_event(CloseEvent(s))
    /\ pending' = [pending EXCEPT ![s] = Append(@, CloseEvent(s))]
    /\ obs' = [NoObs EXCEPT !.kind = "reset", !.session = s,
                            !.emitted = CloseEvent(s).event]
    /\ UNCHANGED <<character, channels, private_messages, variables, last_err, wire,
                   reconnect_of, sessions, dispatcher, disconnects, varlog, nframes,
                   nvars>>

(***************************************************************************)
(* Client::dispatch, the Command arm: raw_command first, then the cache    *)
(* mutation and the listener callbacks of the command.  r1 and r2 are the  *)
(* cache's answers ("changed?") to the first and second mutator called.    *)
(* The calls are listed in the order they are made; a callback that takes  *)
(* the session records the channels the session holds at that moment.      *)
(***************************************************************************)
CacheCall(op, ch, c, r) ==
    [Call(op, 0) EXCEPT !.channel = ch, !.character = c, !.ret = r]

SessionChannelsCall(s) ==
    [Call("updated_session_channels", s) EXCEPT !.chans = channels[s]]

(***************************************************************************)
(* The arms of the form `if self.cache.<mutator>(..).unwrap() {            *)
(* self.event_listener.<callback>(..).await }`: the mutator, the callback  *)
(* and whether the callback is given the session.                          *)
(***************************************************************************)
GatedArms ==
    [ADL |-> [mutator |-> "set_global_ops", callback |-> "updated_global_ops", session |-> FALSE],
     AOP |-> [mutator |-> "add_global_op", callback |-> "updated_global_ops", session |-> FALSE],
     DOP |-> [mutator |-> "remove_global_op", callback |-> "updated_global_ops", session |-> FALSE],
     CDS |-> [mutator |-> "update_channel", callback |-> "updated_channel", session |-> FALSE],
     ICH |-> [mutator |-> "insert_channel", callback |-> "updated_channel", session |-> FALSE],
     COA |-> [mutator |-> "add_channel_op", callback |-> "updated_channel", session |-> FALSE],
     COR |-> [mutator |-> "remove_channel_op", callback |-> "updated_channel", session |-> FALSE],
     COL |-> [mutator |-> "set_channel_ops", callback |-> "updated_channel", session |-> FALSE],
     RMO |-> [mutator |-> "update_channel", callback |-> "updated_channel", session |-> FALSE],
     FLN |-> [mutator |-> "update_character", callback |-> "updated_character", session |-> FALSE],
     NLN |-> [mutator |-> "update_character", callback |-> "updated_character", session |-> FALSE],
     STA |-> [mutator |-> "update_character", callback |-> "updated_character", session |-> FALSE],
     LRP |-> [mutator |-> "insert_ad", callback |-> "ad", session |-> FALSE],
     PRI |-> [mutator |-> "insert_message", callback |-> "message", session |-> TRUE],
     RLL |-> [mutator |-> "insert_message", callback |-> "message", session |-> TRUE]]

\* A variant of Gated that notifies whatever the cache answered.
GatedAlways(r, notification) == << notification >>
\* if <mutator>.unwrap() { <callback> }
Gated(r, notification) == IF r THEN << notification >> ELSE <<>>

GatedCalls(s, f, r) ==
    LET arm == GatedArms[f.cmd] IN
    << CacheCall(arm.mutator, f.channel, f.character, r) >>
    \o Gated(r, [Call(arm.callback, IF arm.session THEN s ELSE 0) EXCEPT
                    !.channel = f.channel, !.character = f.character])

\* The ListOnline arm: for character in characters.drain(..), the same gate
\* for each entry, r[k] being the cache's answer for the k-th entry.
RECURSIVE ListOnlineCalls(_, _)
ListOnlineCalls(cs, r) ==
    IF cs = <<>> THEN <<>>
    ELSE << CacheCall("update_character", None, Head(cs), Head(r)) >>
         \o Gated(Head(r), [Call("updated_character", 0) EXCEPT !.character = Head(cs)])
         \o ListOnlineCalls(Tail(cs), Tail(r))

CommandCalls(s, f, r1, r2) ==
    CASE f.cmd = "CON" -> << Call("ready", s) >>
      [] f.cmd = "ERR" ->
            << [Call("error", s) EXCEPT !.err = ProtocolErrorFrom(f.number)] >>
      [] f.cmd = "JCH" ->
            << CacheCall("update_channel", f.channel, None, r1) >>
            \o (IF r1 THEN <<>>   \* a || b: b is not evaluated when a is true
                ELSE << CacheCall("add_channel_member", f.channel, f.character, r2) >>)
            \o (IF r1 \/ r2
                THEN << [Call("updated_channel", 0) EXCEPT !.channel = f.channel] >>
                ELSE <<>>)
            \o (IF character[s] = f.character THEN << SessionChannelsCall(s) >> ELSE <<>>)
      [] f.cmd = "LCH" ->
            << CacheCall("remove_channel_member", f.channel, f.character, r1) >>
            \o (IF r1
                THEN << [Call("updated_channel", 0) EXCEPT !.channel = f.channel] >>
                ELSE <<>>)
            \o (IF character[s] = f.character THEN << SessionChannelsCall(s) >> ELSE <<>>)
      [] f.cmd = "TPN" ->
            << [Call("typing", s) EXCEPT !.character = f.character, !.status = f.status] >>
      [] f.cmd = "MSG" ->
            << CacheCall("insert_message", None, None, r1) >>
            \o Gated(r1, Call("message", s))
      [] f.cmd \in DOMAIN GatedArms -> GatedCalls(s, f, r1)
      [] f.cmd = "LIS" -> ListOnlineCalls(f.characters, <<r1, r2>>)
      [] OTHER -> <<>>

\* The arms that panic: "Should never reach client".
Panics(f) == f.cmd \in {"HLO", "IDN", "PIN", "VAR"}

\* The arms that are todo!(): Banned, Kicked, Timeout, SetOwner, Search, Report.
Todo(f) == f.cmd \in {"CBU", "CKU", "CTU", "CSO", "FKS", "SFC"}

RawCommandCall(s, f) ==
    [Call("raw_command", s) EXCEPT !.channel = f.channel, !.character = f.character,
                                   !.status = f.cmd]

\* A variant of CommandArmCalls with raw_command after the command's own calls.
CommandArmCallsRawLast(s, f, r1, r2) ==
    CommandCalls(s, f, r1, r2) \o << RawCommandCall(s, f) >>
\* The Command arm: raw_command, then the match on the command.
CommandArmCalls(s, f, r1, r2) ==
    << RawCommandCall(s, f) >> \o CommandCalls(s, f, r1, r2)

\* A variant of DisconnectedArm calling session_disconnected before drop_session.
DisconnectedNotifyFirst(s, e, list) ==
    [sessions |-> drop_session(list, character[s]),
     calls |-> << [Call("session_disconnected", s) EXCEPT
                      !.err = e, !.listed = \E i \in 1..Len(list) : list[i] = s],
                  Call("sessions_updated", 0) >>]
DisconnectedArm(s, e, list) ==
    LET dropped == drop_session(list, character[s])
    IN [sessions |-> dropped,
        calls |-> << [Call("session_disconnected", s) EXCEPT
                        !.err = e,
                        !.listed = \E i \in 1..Len(dropped) : dropped[i] = s],
                     Call("sessions_updated", 0) >>]

(***************************************************************************)
(* Client::start takes the next event and Client::dispatch handles it:     *)
(* the Disconnected, Command and Error arms (the BridgeEvent arm of        *)
(* Command, with its HTTP fetch, is dispatch_BridgeEvent).                 *)
(***************************************************************************)
dispatch ==
    /\ UNCHANGED <<cache, app, write>>
    /\ active' = [active EXCEPT !["dispatcher"] = None]
    /\ UNCHANGED <<histVars, tokenVars>>
    /\ dispatcher = "idle"
    /\ queue # <<>>
    /\ Head(queue).event # "Reconnect"
    /\ Head(queue).command.cmd # "RTB"
    /\ pending' = Delivered(Head(queue))
    /\ \E r1, r2 \in BOOLEAN :
       LET ev == Head(queue)
           s == ev.session
       IN
        /\ queue' = Tail(queue)
        /\ CASE ev.event = "Disconnected" ->
                  LET d == DisconnectedArm(s, ev.err, sessions) IN
                    /\ sessions' = d.sessions
                    /\ disconnects' = [disconnects EXCEPT ![s] = @ + 1]
                    /\ dispatcher' = dispatcher
                    /\ obs' = [NoObs EXCEPT !.kind = "dispatch", !.session = s,
                                            !.emitted = ev.event, !.calls = d.calls]
             [] ev.event = "Command" ->
                    /\ UNCHANGED <<sessions, disconnects>>
                    /\ dispatcher' = IF Panics(ev.command) \/ Todo(ev.command)
                                     THEN "dead" ELSE dispatcher
                    /\ obs' = [NoObs EXCEPT
                                 !.kind = "dispatch", !.session = s,
                                 !.emitted = ev.event, !.frame = ev.command,
                                 !.calls = CommandArmCalls(s, ev.command, r1, r2)]
             [] OTHER ->   \* SessionEvent::Error
                    /\ UNCHANGED <<sessions, disconnects, dispatcher>>
                    /\ obs' = [NoObs EXCEPT
                                 !.kind = "dispatch", !.session = s, !.emitted = ev.event,
                                 !.calls = << [Call("session_error", s) EXCEPT
                                                  !.error = ev.error] >>]
    /\ UNCHANGED <<sessVars, varlog, nframes, nvars>>

(***************************************************************************)
(* Client::dispatch, the Command arm from its head to inside               *)
(* event_listener.raw_command(...).await: the dispatcher's task is in the  *)
(* listener, and dispatch (above) is the callback returning and the rest   *)
(* of the arm.                                                             *)
(***************************************************************************)
dispatch_callback ==
    /\ dispatcher = "idle"
    /\ queue # <<>>
    /\ Head(queue).event = "Command"
    /\ active["dispatcher"] = None
    /\ active' = [active EXCEPT !["dispatcher"] = "raw_command"]
    /\ obs' = [NoObs EXCEPT !.kind = "callback", !.session = Head(queue).session,
                            !.frame = Head(queue).command]
    /\ UNCHANGED <<sessVars, clientVars, varlog, nframes, nvars, histVars, tokenVars,
                   pending, cache, app, write>>

(***************************************************************************)
(* Client::dispatch, the Reconnect arm up to session.reconnect's           *)
(* connect_internal having sent IDN on a new socket.                       *)
(*   outcome "panic": refresh_fast().await.unwrap() on a failed refresh;   *)
(*   outcome "dial":  connect_async fails, reconnect returns Err;          *)
(*   outcome "ok":    the dispatcher now awaits the new socket's handshake.*)
(*   limit: how many sockets the client may have opened in all.            *)
(***************************************************************************)
dispatch_Reconnect_upto(limit) ==
    /\ UNCHANGED appVars
    /\ UNCHANGED <<histVars, now>>
    /\ dispatcher = "idle"
    /\ queue # <<>>
    /\ Head(queue).event = "Reconnect"
    /\ pending' = Delivered(Head(queue))
    /\ \E outcome \in {"panic", "dial", "ok"} :
       LET old == Head(queue).session
           r == refresh_fast(outcome # "panic")
       IN
        /\ (outcome = "panic") <=> (r.result # "ok")
        /\ r.asked => issued < MaxTickets
        /\ token' = r.token
        /\ issued' = r.issued
        /\ queue' = Tail(queue)
        /\ CASE outcome = "panic" ->
                    /\ dispatcher' = "dead"
                    /\ obs' = [NoObs EXCEPT !.kind = "dispatch", !.session = old,
                                            !.emitted = "Reconnect", !.result = "panic",
                                            !.asked = r.asked, !.old_token = token,
                                            !.old_sessions = sessions]
                    /\ UNCHANGED <<sessVars, sessions>>
             [] outcome = "dial" ->
                    /\ dispatcher' = "idle"
                    /\ sessions' = drop_session(sessions, character[old])
                    /\ obs' = [NoObs EXCEPT
                                 !.kind = "reconnect", !.session = old,
                                 !.result = "WebsocketError",
                                 !.old_channels = channels[old],
                                 !.asked = r.asked, !.old_token = token,
                                 !.old_sessions = sessions,
                                 !.calls = ReconnectErrCalls(old, "WebsocketError")]
                    /\ UNCHANGED sessVars
             [] OTHER ->
                    /\ Unused # {}
                    /\ Cardinality(SessIds \ Unused) < limit
                    /\ LET s == NewId IN
                        /\ pc' = [pc EXCEPT ![s] = "identify"]
                        /\ character' = [character EXCEPT ![s] = character[old]]
                        /\ wire' = [wire EXCEPT ![s] = <<Identify(character[old])>>]
                        /\ reconnect_of' = [reconnect_of EXCEPT ![s] = old]
                        /\ obs' = [NoObs EXCEPT !.kind = "dispatch", !.session = old,
                                                !.emitted = "Reconnect", !.result = "ok",
                                                !.asked = r.asked, !.old_token = token,
                                                !.old_sessions = sessions]
                    /\ dispatcher' = "reconnecting"
                    /\ UNCHANGED <<channels, private_messages, variables, last_err,
                                   sessions>>
    /\ UNCHANGED <<disconnects, varlog, nframes, nvars>>

dispatch_Reconnect == dispatch_Reconnect_upto(MaxSessions)

(***************************************************************************)
(* Time passes: the 25 minutes of a ticket, or a second more.              *)
(***************************************************************************)
TickSizes == {ExpiryAfter, ExpiryAfter + 1}

Tick ==
    /\ UNCHANGED appVars
    /\ \E d \in TickSizes :
        /\ now + d <= MaxTime
        /\ now' = now + d
    /\ obs' = [NoObs EXCEPT !.kind = "tick", !.old_token = token]
    /\ UNCHANGED <<sessVars, clientVars, varlog, nframes, nvars, histVars, token, issued,
                   pending>>

(***************************************************************************)
(* Client::refresh and Client::refresh_fast, called by the application.    *)
(***************************************************************************)
Client_refresh ==
    /\ UNCHANGED appVars
    /\ issued < MaxTickets
    /\ \E fetch_ok \in BOOLEAN :
       LET r == refresh(fetch_ok) IN
        /\ token' = r.token
        /\ issued' = r.issued
        /\ obs' = [NoObs EXCEPT !.kind = "refresh", !.result = r.result,
                                !.asked = r.asked, !.old_token = token]
    /\ UNCHANGED <<sessVars, clientVars, varlog, nframes, nvars, histVars, now, pending>>

Client_refresh_fast ==
    /\ UNCHANGED appVars
    /\ \E fetch_ok \in BOOLEAN :
       LET r == refresh_fast(fetch_ok) IN
        /\ r.asked => issued < MaxTickets
        /\ token' = r.token
        /\ issued' = r.issued
        /\ obs' = [NoObs EXCEPT !.kind = "refresh_fast", !.result = r.result,
                                !.asked = r.asked, !.old_token = token]
    /\ UNCHANGED <<sessVars, clientVars, varlog, nframes, nvars, histVars, now, pending>>

(***************************************************************************)
(* The specification.                                                      *)
(***************************************************************************)

Next ==
    \/ \E c \in OwnCharacters : Client_connect(c)
    \/ \E s \in SessIds : connect_internal(s)
    \/ \E s \in SessIds : read_variables(s, LeanVarFrames)
    \/ \E s \in SessIds : Session_connect(s)
    \/ \E s \in SessIds : Session_reconnect(s)
    \/ \E s \in SessIds : start_event_loop(s)
    \/ \E s \in SessIds : ResetWithoutClosingHandshake(s)
    \/ dispatch
    \/ dispatch_Reconnect

Spec == Init /\ [][Next]_vars

(***************************************************************************)
(* The handshake alone, with every VAR the codec knows.                    *)
(***************************************************************************)
NextNegotiation ==
    \/ \E c \in OwnCharacters : Client_connect(c)
    \/ \E s \in SessIds : connect_internal(s)
    \/ \E s \in SessIds : read_variables(s, AllVarFrames)
    \/ \E s \in SessIds : Session_connect(s)

SpecNegotiation == Init /\ [][NextNegotiation]_vars

(***************************************************************************)
(* Several calls of connect, their sessions side by side on the one event  *)
(* channel, with few kinds of frames.                                      *)
(***************************************************************************)
PairFrames == {Connected, Error(2)}

NextSessions ==
    \/ \E c \in OwnCharacters : Client_connect_upto(c, MaxSessions)
    \/ \E s \in SessIds : connect_internal(s)
    \/ \E s \in SessIds : Session_connect(s)
    \/ \E s \in SessIds : Session_reconnect(s)
    \/ \E s \in SessIds : event_loop(s, PairFrames)
    \/ \E s \in SessIds : ResetWithoutClosingHandshake(s)
    \/ dispatch
    \/ dispatch_Reconnect

SpecSessions == Init /\ [][NextSessions]_vars

(***************************************************************************)
(* The ticket over time: the clock, the application's refreshes, connect   *)
(* and the dispatcher's reconnects, without frames for the event loops.    *)
(***************************************************************************)
NextToken ==
    \/ Tick
    \/ Client_refresh
    \/ Client_refresh_fast
    \/ \E c \in OwnCharacters : Client_connect(c)
    \/ \E s \in SessIds : connect_internal(s)
    \/ \E s \in SessIds : Session_connect(s)
    \/ \E s \in SessIds : Session_reconnect(s)
    \/ \E s \in SessIds : ResetWithoutClosingHandshake(s)
    \/ dispatch_Reconnect

SpecToken == Init /\ [][NextToken]_vars

(***************************************************************************)
(* One session and the dispatcher, with the frames of every command the    *)
(* model knows, and no transport reset.                                    *)
(***************************************************************************)
NextDispatch ==
    \/ \E c \in OwnCharacters : Client_connect(c)
    \/ \E s \in SessIds : connect_internal(s)
    \/ \E s \in SessIds : Session_connect(s)
    \/ \E s \in SessIds : event_loop(s, ServerFrames \cup CacheFrames \cup QuietFrames
                                            \cup UndecodableFrames)
    \/ dispatch

SpecDispatch == Init /\ [][NextDispatch]_vars

(***************************************************************************)
(* Properties.                                                             *)
(***************************************************************************)
\* The ERR numbers the protocol classes as fatal (the last one being the
\* transport-level internal error).
FatalCodes == {2, 9, 30, 31, 33, 39, 40, -1}

InQueue(ev) == \E i \in 1..Len(queue) : queue[i] = ev
Listed(s) == \E i \in 1..Len(sessions) : sessions[i] = s
LastEmitted == queue[Len(queue)]

C2_CloseClassifiedByLastErr ==
    obs.kind = "reset" =>
        LET s == obs.session
            n == recent_err[s]
        IN /\ pc[s] = "closed"
           /\ LastEmitted = IF n \in FatalCodes THEN EvDisconnected(s, n)
                            ELSE EvReconnect(s)

\* C2 happens: a session read a fatal ERR, then a non-fatal one, then its
\* transport reset and it emitted Reconnect.
C2_Witness ==
    /\ obs.kind = "reset"
    /\ obs.emitted = "Reconnect"
    /\ recent_err[obs.session] = 5
    /\ \E i, j \in 1..Len(queue) :
        /\ i < j
        /\ queue[i] = EvCommand(obs.session, Error(2))
        /\ queue[j] = EvCommand(obs.session, Error(5))

\* C3: after a TPN the session records the peer's latest status, and the
\* TPN is forwarded if and only if its status differs from the one recorded
\* before (no status recorded counts as different).
C3_TypingForwardedIffChanged ==
    obs.kind = "read" /\ obs.frame.cmd = "TPN" =>
        /\ private_messages[obs.session][obs.frame.character] = obs.frame.status
        /\ (obs.emitted = "Command") <=> (obs.old_status # obs.frame.status)

\* The JCH frames that reached the wire of a socket, in order.
JoinsOnWire(s) == SelectSeq(wire[s], LAMBDA m : m.cmd = "JCH")
ChannelsOf(q) == {q[i].channel : i \in 1..Len(q)}
\* Where a channel stands in the order of insertion.
Position(q, c) == CHOOSE i \in 1..Len(q) : q[i] = c

\* C4: a reconnect that succeeds has put, before it returns, exactly one JCH
\* on the new socket's wire for every channel of the old session's set and
\* none for any other channel, and no JCH is on that wire while the socket
\* is still identifying or negotiating its variables.
C4_RejoinOnWireOncePerChannel ==
    /\ \A s \in SessIds : pc[s] \in {"identify", "negotiate"} => JoinsOnWire(s) = <<>>
    /\ obs.kind = "reconnect" /\ obs.result = "ok" =>
        /\ Len(JoinsOnWire(obs.session)) = Cardinality(obs.old_channels)
        /\ ChannelsOf(JoinsOnWire(obs.session)) = obs.old_channels

C6_FirstNonVarForwarded ==
    /\ obs.kind \in {"negotiated", "reconnect"}
    /\ obs.result = "ok"
    /\ pc[obs.session] = "running"
    /\ handle_command(obs.session, obs.frame, TRUE).ret = "true"
    => InQueue(EvCommand(obs.session, obs.frame))

\* The value the last VAR of a kind carried, 0 (the default) without one.
LastVar(log, k) ==
    LET at == {i \in 1..Len(log) : log[i].variable = k}
    IN IF at = {} THEN 0 ELSE log[CHOOSE i \in at : \A j \in at : j <= i].value

\* C7: once connect has succeeded, every field of the session's variables
\* holds the value of the last VAR of its kind read between the IDN answer
\* and the first non-VAR frame, and the default when no such VAR was read.
C7_VariablesReflectLastVar ==
    \A s \in SessIds : pc[s] = "running" =>
        /\ variables[s].chat_max = LastVar(varlog[s], "chat_max")
        /\ variables[s].priv_max = LastVar(varlog[s], "priv_max")
        /\ variables[s].ad_max = LastVar(varlog[s], "lfrp_max")
        /\ variables[s].chat_cooldown = LastVar(varlog[s], "msg_flood")
        /\ variables[s].ad_cooldown = LastVar(varlog[s], "lfrp_flood")
        /\ variables[s].status_cooldown = LastVar(varlog[s], "sta_flood")
        /\ variables[s].icon_blacklist = LastVar(varlog[s], "icon_blacklist")

\* C7 happens: a connect succeeded after two VAR frames of one kind with
\* different values, the other fields left at their default.
C7_Witness ==
    \E s \in SessIds :
        /\ pc[s] = "running"
        /\ Len(varlog[s]) = 2
        /\ varlog[s][1].variable = "lfrp_flood"
        /\ varlog[s][2].variable = "lfrp_flood"
        /\ varlog[s][1].value # varlog[s][2].value
        /\ variables[s].ad_cooldown = varlog[s][2].value
        /\ variables[s].chat_cooldown = 0

OwnJoinLeave(s, f) == f.cmd \in {"JCH", "LCH"} /\ f.character = character[s]

\* C8: in every state a session's channels are exactly the channels for
\* which it processed a JCH naming its own character and no LCH naming its
\* own character since; a JCH or LCH naming another character, and every
\* other command, leaves the set as it was.
C8_ChannelsAreOwnJoinsNotLeft ==
    /\ \A s \in SessIds : channels[s] = Range(inserted[s])
    /\ obs.kind = "read" /\ ~OwnJoinLeave(obs.session, obs.frame) =>
            channels[obs.session] = obs.old_channels

\* C8 happens: a session that had joined a channel processed its own LCH
\* for it, and the channel is gone from the set.
C8_Witness ==
    /\ obs.kind = "read"
    /\ obs.frame.cmd = "LCH"
    /\ obs.frame.character = character[obs.session]
    /\ obs.frame.channel \in obs.old_channels
    /\ obs.frame.channel \notin channels[obs.session]

\* The listener's view of the session's channels in the calls of a step.
SeenChannels == {obs.calls[i].chans : i \in {j \in 1..Len(obs.calls) :
                                               obs.calls[j].cb = "updated_session_channels"}}

\* The set is mutated before the event is put on the channel: in the state
\* where the event of an own JCH (LCH) has just been emitted, the join
\* (leave) is applied.
MutatedBeforeEmit ==
    obs.kind = "read" /\ OwnJoinLeave(obs.session, obs.frame) =>
        /\ obs.emitted = "Command"
        /\ LastEmitted = EvCommand(obs.session, obs.frame)
        /\ obs.frame.cmd = "JCH" => obs.frame.channel \in channels[obs.session]
        /\ obs.frame.cmd = "LCH" => obs.frame.channel \notin channels[obs.session]

C10_PingAnsweredNotForwarded ==
    /\ \A i \in 1..Len(queue) : queue[i].command.cmd # "PIN"
    /\ obs.kind = "dispatch" =>
            /\ obs.frame.cmd # "PIN"
            /\ \A i \in 1..Len(obs.calls) : obs.calls[i].status # "PIN"
    /\ obs.kind = "read" /\ obs.frame.cmd = "PIN" =>
        LET s == obs.session IN
        \/ /\ obs.result = "ok"
           /\ obs.emitted = None
           /\ wire[s] = Append(Prefix(wire[s], obs.old_wire), Pong)
        \/ /\ obs.result = "write failed"
           /\ obs.emitted = "Error"
           /\ LastEmitted = EvError(s, "WebsocketError")
           /\ Len(wire[s]) = obs.old_wire

\* C10 happens: a session read a PIN and its Pong reached the wire.
C10_Witness ==
    /\ obs.kind = "read"
    /\ obs.frame = Ping
    /\ obs.result = "ok"
    /\ wire[obs.session][Len(wire[obs.session])] = Pong

\* The events of session s on the channel, oldest first.
OnChannel(s) == SelectSeq(queue, LAMBDA e : e.session = s)

\* C11: the events a session forwards are dispatched in the order its socket
\* received their frames, whatever other sessions put on the channel in
\* between: the events of a session that wait on the channel are the ones it
\* emitted and the dispatcher has not taken, in the order it emitted them,
\* and the dispatcher takes the oldest of them.
C11_DispatchedInWireOrder ==
    \A s \in SessIds : OnChannel(s) = pending[s]

\* C11 happens: the dispatcher took an event of one session while the channel
\* holds an event of another session and, behind it, a later event of the first.
C11_Witness ==
    /\ obs.kind = "dispatch"
    /\ obs.emitted = "Command"
    /\ Len(queue) >= 2
    /\ queue[1].session # obs.session
    /\ queue[2].session = obs.session
    /\ pending[obs.session] = <<queue[2]>>

\* C12: no two sessions on the client's list are bound to the same character.
C12_OneSessionPerCharacter ==
    \A i, j \in 1..Len(sessions) :
        character[sessions[i]] = character[sessions[j]] => i = j

\* The close event of session s has been handled: the session's transport
\* reset, none of its events waits on the channel, and the dispatcher is not
\* in the middle of the reconnect (nor dead).
CloseHandled(s) ==
    /\ pc[s] = "closed"
    /\ pending[s] = <<>>
    /\ dispatcher = "idle"

\* C13: a session is on the client's list exactly while its socket is live:
\* every session with a running event loop is on the list, and a session
\* whose transport has reset is off the list once its close event is handled.
C13_ListedIffLive ==
    \A s \in SessIds :
        /\ pc[s] = "running" => Listed(s)
        /\ CloseHandled(s) => ~Listed(s)

\* C14: handling a Reconnect event of session s is, in this order: the fast
\* ticket refresh (the endpoint asked exactly when the ticket is expired),
\* s.reconnect (during which s is still on the list and nothing is called),
\* the removal of s, then the new session put last on the list (success) or
\* session_error(s, err) (failure), then one sessions_updated and nothing
\* more; after a success the new session is listed and s is not, after a
\* failure no session of s's character is listed.
C14_ReconnectInOrder ==
    /\ obs.kind = "dispatch" /\ obs.emitted = "Reconnect" =>
        /\ obs.asked <=> (now - obs.old_token.last_updated > ExpiryAfter)
        /\ obs.asked => token = [ticket |-> issued, last_updated |-> now]
        /\ ~obs.asked => token = obs.old_token
        /\ obs.calls = <<>>
        /\ sessions = obs.old_sessions
        /\ dispatcher = "reconnecting"
    /\ dispatcher = "reconnecting" =>
        \E t \in SessIds :
            /\ pc[t] \in {"identify", "negotiate"}
            /\ reconnect_of[t] # 0
            /\ Listed(reconnect_of[t])
            /\ obs.calls = <<>>
    /\ dispatcher # "dead"
    /\ obs.kind = "reconnect" =>
        IF obs.result = "ok"
        THEN /\ obs.calls = << Call("sessions_updated", 0) >>
             /\ sessions # <<>>
             /\ sessions[Len(sessions)] = obs.session
             /\ ~Listed(reconnect_of[obs.session])
        ELSE /\ obs.calls = ReconnectErrCalls(obs.calls[1].session, obs.result)
             /\ pc[obs.calls[1].session] = "closed"
             /\ \A i \in 1..Len(sessions) :
                    character[sessions[i]] # character[obs.calls[1].session]

\* The cache mutator and the listener callback of a cache-gated command.
MutatorOf(cmd) ==
    CASE cmd = "MSG" -> "insert_message"
      [] cmd = "LIS" -> "update_character"
      [] OTHER -> GatedArms[cmd].mutator
CallbackOf(cmd) ==
    CASE cmd = "MSG" -> "message"
      [] cmd = "LIS" -> "updated_character"
      [] OTHER -> GatedArms[cmd].callback

\* C15: for a dispatched ADL, AOP, DOP, CDS, ICH, COA, COR, COL, RMO, FLN,
\* NLN, STA, LRP, PRI, MSG or RLL, and for each entry of a dispatched LIS,
\* the cache mutator of the command is called once and its listener callback
\* is invoked, right after it and for the same subject, exactly when the
\* mutator returned true; when it returned false nothing is invoked for it,
\* and apart from raw_command nothing else is called for the command.
C15_NotifiedIffChanged ==
    obs.kind = "dispatch" /\ obs.emitted = "Command"
    /\ obs.frame.cmd \in DOMAIN GatedArms \cup {"MSG", "LIS"} =>
        LET calls == Tail(obs.calls)
            n == Len(calls)
            mutator == MutatorOf(obs.frame.cmd)
            callback == CallbackOf(obs.frame.cmd)
            entries == IF obs.frame.cmd = "LIS" THEN Len(obs.frame.characters) ELSE 1
        IN
        /\ \A i \in 1..n : calls[i].cb \in {mutator, callback}
        /\ Cardinality({i \in 1..n : calls[i].cb = mutator}) = entries
        /\ \A i \in 1..n : calls[i].cb = mutator =>
                (calls[i].ret <=> (i < n /\ calls[i + 1].cb = callback))
        /\ \A i \in 1..n : calls[i].cb = callback =>
                /\ i > 1
                /\ calls[i - 1].cb = mutator
                /\ calls[i - 1].ret
                /\ calls[i - 1].character = calls[i].character
                /\ calls[i - 1].channel = calls[i].channel

\* C15 happens: the dispatcher handled a LIS of two entries, the cache
\* reporting no change for the first and a change for the second, and
\* updated_character was invoked for the second alone.
C15_Witness ==
    /\ obs.kind = "dispatch"
    /\ obs.frame = ListOnline(<<"Bob", "Alice">>)
    /\ Len(obs.calls) = 4
    /\ obs.calls[2].cb = "update_character" /\ ~obs.calls[2].ret
    /\ obs.calls[3].cb = "update_character" /\ obs.calls[3].ret
    /\ obs.calls[4].cb = "updated_character" /\ obs.calls[4].character = "Alice"

\* The calls of the step just taken that were made to cb.
CallsOf(cb) == SelectSeq(obs.calls, LAMBDA c : c.cb = cb)

\* C16: when a JCH is dispatched, update_channel and add_channel_member are
\* each called once for the channel, whatever the other returned;
\* updated_channel is invoked once if one of them returned true and not at
\* all otherwise; updated_session_channels is invoked once if the character
\* that joined is the session's own and not at all otherwise.
C16_JoinAttemptsBothCacheCalls ==
    obs.kind = "dispatch" /\ obs.emitted = "Command" /\ obs.frame.cmd = "JCH" =>
        LET upd == CallsOf("update_channel")
            add == CallsOf("add_channel_member")
        IN
        /\ Len(upd) = 1 /\ upd[1].channel = obs.frame.channel
        /\ Len(add) = 1 /\ add[1].channel = obs.frame.channel
        /\ add[1].character = obs.frame.character
        /\ Len(CallsOf("updated_channel")) = IF upd[1].ret \/ add[1].ret THEN 1 ELSE 0
        /\ Len(CallsOf("updated_session_channels")) =
                IF obs.frame.character = character[obs.session] THEN 1 ELSE 0

\* C17: for every Command event the dispatcher handles, raw_command is
\* invoked once, for the event's session and command, and it is the first
\* call made: every cache mutation and every other callback of the command
\* comes after it.
C17_RawCommandFirstOnce ==
    obs.kind = "dispatch" /\ obs.emitted = "Command" =>
        /\ obs.calls # <<>>
        /\ obs.calls[1] = RawCommandCall(obs.session, obs.frame)
        /\ Len(CallsOf("raw_command")) = 1

\* C17 happens: the dispatcher handled a command with a cache mutation and a
\* callback of its own, both made after raw_command.
C17_Witness ==
    /\ obs.kind = "dispatch"
    /\ obs.emitted = "Command"
    /\ obs.frame.cmd \in DOMAIN GatedArms
    /\ Len(obs.calls) = 3
    /\ obs.calls[1].cb = "raw_command"
    /\ obs.calls[2].cb = MutatorOf(obs.frame.cmd)
    /\ obs.calls[3].cb = CallbackOf(obs.frame.cmd)

\* The commands a session keeps to itself.
Sunk == {"IDN", "HLO", "PIN", "VAR"}

\* C18: whatever frames the server sends after the handshake, no session
\* puts a Command event carrying IDN, HLO, PIN or VAR on the client's
\* channel, so the dispatcher never handles one and never enters an arm
\* that panics with "Should never reach client".
C18_SunkCommandsNeverReachDispatcher ==
    /\ \A i \in 1..Len(queue) :
            queue[i].event = "Command" => queue[i].command.cmd \notin Sunk
    /\ obs.kind = "read" /\ obs.frame.cmd \in Sunk => obs.emitted # "Command"
    /\ obs.kind = "dispatch" /\ obs.emitted = "Command" =>
            /\ obs.frame.cmd \notin Sunk
            /\ ~Panics(obs.frame)
            /\ dispatcher # "dead"

\* C18 happens: a running session read an HLO and put nothing on the channel.
C18_Witness ==
    /\ obs.kind = "read"
    /\ obs.frame = Hello
    /\ obs.emitted = None
    /\ queue = <<>>
    /\ nframes = MaxFrames

\* The error a session raises for a frame that belongs to the handshake.
LateError(f) == IF f.cmd = "IDN" THEN "LateIdentifyCommand" ELSE "LateVarCommand"

\* What every step does with a late IDN or VAR: the event loop that reads
\* one emits Error(LateIdentifyCommand) or Error(LateVarCommand) and no
\* Command, and the dispatcher hands an Error event to session_error and
\* calls nothing else; neither step changes variables, channels or last_err.
LateCommandsAreErrors ==
    LET f == obs'.frame
        s == obs'.session
    IN
    /\ obs'.kind = "read" /\ f.cmd \in {"IDN", "VAR"} =>
        /\ obs'.emitted = "Error"
        /\ queue' = Append(queue, EvError(s, LateError(f)))
        /\ UNCHANGED <<variables, channels, last_err>>
    /\ obs'.kind = "dispatch" /\ obs'.emitted = "Error" =>
        /\ Head(queue) = EvError(s, Head(queue).error)
        /\ obs'.calls = << [Call("session_error", s) EXCEPT !.error = Head(queue).error] >>
        /\ UNCHANGED <<variables, channels, last_err>>

\* The event loop forwards the frame it has just read.
Forwarded == queue' = Append(queue, EvCommand(obs'.session, obs'.frame))

\* C19 as stated: an IDN or a VAR read by the event loop yields
\* Error(LateIdentifyCommand) or Error(LateVarCommand), delivered to
\* session_error, not forwarded, with variables, channels and last_err
\* unchanged; every command other than PIN, HLO, IDN and VAR is forwarded.
C19_LateIsErrorAllElseForwarded ==
    [][/\ LateCommandsAreErrors
       /\ obs'.kind = "read" /\ obs'.frame.cmd \notin Sunk => Forwarded]_vars

\* C19, amended: as above for IDN and VAR; every command other than PIN,
\* HLO, IDN, VAR and TPN is forwarded; a TPN is forwarded when it is the
\* first of its character and otherwise forwarded or sunk.
C19_LateIsErrorOthersButTypingForwarded ==
    [][/\ LateCommandsAreErrors
       /\ obs'.kind = "read" /\ obs'.frame.cmd \notin Sunk \cup {"TPN"} => Forwarded
       /\ obs'.kind = "read" /\ obs'.frame.cmd = "TPN" =>
            /\ Forwarded \/ queue' = queue
            /\ private_messages[obs'.session][obs'.frame.character] = Absent => Forwarded]_vars

\* C19 happens: a session read a VAR in its event loop and the dispatcher
\* delivered the LateVarCommand error to session_error.
C19_Witness ==
    /\ obs.kind = "dispatch"
    /\ obs.emitted = "Error"
    /\ obs.calls = << [Call("session_error", obs.session) EXCEPT !.error = "LateVarCommand"] >>
    /\ pc[obs.session] = "running"

\* The step just taken ran Client::refresh_fast: called by the application,
\* or by the dispatcher at the head of the Reconnect arm.
RefreshFastStep ==
    \/ obs'.kind = "refresh_fast"
    \/ queue # <<>> /\ Head(queue).event = "Reconnect" /\ queue' = Tail(queue)

\* The ticket endpoint was asked in the step just taken and did not answer.
FetchFailed == obs'.asked /\ obs'.result \in {"RequestError", "panic"}

C24_HandshakeFailureReturnsError ==
    /\ \A s \in SessIds : pc[s] = "failed" => ~Listed(s) /\ pending[s] = <<>>
    /\ obs.kind = "identify" /\ reconnect_of[obs.session] = 0 =>
        LET s == obs.session
            f == obs.frame
        IN
        /\ f = NoFrame => obs.result = "MiscConnectionFailure"
        /\ f # NoFrame /\ f.cmd # "IDN" => obs.result = "UnexpectedProtocolMessage"
        /\ f.cmd = "IDN" /\ f.character = character[s] =>
                obs.result = "ok" /\ pc[s] = "negotiate"
        /\ f.cmd = "IDN" /\ f.character # character[s] =>
                obs.result \notin {"ok", "panic"}
        /\ obs.result # "ok" => pc[s] = "failed"

\* C25: handling an Error event the dispatcher invokes session_error with
\* the session and the error and nothing else; when the error is a transport
\* (websocket) error the session is taken off the client's list, and for any
\* other error the list stays as it is.
C25_TransportErrorDropsSession ==
    [][obs'.kind = "dispatch" /\ obs'.emitted = "Error" =>
        LET ev == Head(queue) IN
        /\ ev.event = "Error"
        /\ obs'.calls = << [Call("session_error", ev.session) EXCEPT !.error = ev.error] >>
        /\ IF ev.error = "WebsocketError"
           THEN sessions' = SelectSeq(sessions, LAMBDA v : v # ev.session)
           ELSE sessions' = sessions]_vars

\* C23: when a PRD, KID, UPT or FKS is dispatched, raw_command is the only
\* call made, to the listener or to the cache, for it, and the dispatcher
\* goes on to the events that follow.
C23_LoggedCommandsAreNoOps ==
    obs.kind = "dispatch" /\ obs.emitted = "Command"
    /\ obs.frame.cmd \in {"PRD", "KID", "UPT", "FKS"} =>
        /\ obs.calls = << RawCommandCall(obs.session, obs.frame) >>
        /\ dispatcher = "idle"

\* C22: a text frame the event loop reads that is no ServerCommand (a tag the
\* protocol does not have, or a body of the wrong shape) is skipped: nothing is
\* forwarded for it, the session stays listed, and its read loop is still
\* running to take the frames that follow.
C22_UndecodableFrameSkipped ==
    [][obs'.kind = "parse" =>
        /\ queue' = queue
        /\ sessions' = sessions
        /\ pc'[obs'.session] = "running"]_vars

(***************************************************************************)
(* The event channel under load.  Here the event loop's iteration is two   *)
(* steps: the frame is read and handled, and then emit_event's             *)
(* event_channel.send(...).await completes once the channel has room.      *)
(* Between the two the session is "emitting" and holds the event, the last *)
(* of pending.                                                             *)
(***************************************************************************)
MaxBurst == 9
BurstFrames == {Connected}

Held(s) == pending[s][Len(pending[s])]

event_loop_handle(s, Frames, limit) ==
    /\ UNCHANGED appVars
    /\ UNCHANGED tokenVars
    /\ pc[s] = "running"
    /\ nframes < limit
    /\ \E f \in Frames, write_ok \in BOOLEAN :
       LET h == handle_command(s, parse_command(f).command, write_ok) IN
        /\ ~parse_command(f).panic
        /\ f.cmd # "PIN" => write_ok
        /\ pc' = [pc EXCEPT ![s] = IF h.ret = "false" THEN "running" ELSE "emitting"]
        /\ channels' = [channels EXCEPT ![s] = h.channels]
        /\ private_messages' = [private_messages EXCEPT ![s] = h.private_messages]
        /\ last_err' = [last_err EXCEPT ![s] = h.last_err]
        /\ wire' = [wire EXCEPT ![s] = h.wire]
        /\ obs' = [NoObs EXCEPT !.kind = "handle", !.session = s, !.frame = f,
                                !.old_wire = Len(wire[s]),
                                !.result = IF f.cmd = "PIN" /\ ~write_ok
                                           THEN "write failed" ELSE "ok"]
        /\ recent_err' = [recent_err EXCEPT ![s] = IF f.cmd = "ERR" THEN f.number ELSE @]
        /\ inserted' = [inserted EXCEPT ![s] = Replay(@, f, character[s])]
        /\ UNCHANGED reconnect_err
        /\ pending' = CASE h.ret = "true" -> [pending EXCEPT ![s] = Append(@, EvCommand(s, f))]
                        [] h.ret = "err" -> [pending EXCEPT ![s] = Append(@, EvError(s, h.error))]
                        [] OTHER -> pending
    /\ nframes' = nframes + 1
    /\ UNCHANGED <<character, variables, reconnect_of, sessions, queue, dispatcher,
                   disconnects, varlog, nvars>>

event_loop_emit(s) ==
    /\ UNCHANGED appVars
    /\ pc[s] = "emitting"
    /\ CanEmit
    /\ queue' = emit_event(Held(s))
    /\ pc' = [pc EXCEPT ![s] = "running"]
    /\ obs' = [NoObs EXCEPT !.kind = "emit", !.session = s, !.emitted = Held(s).event]
    /\ UNCHANGED <<character, channels, private_messages, variables, last_err, wire,
                   reconnect_of, sessions, dispatcher, disconnects, varlog, nframes,
                   nvars, histVars, tokenVars, pending>>

NextBackpressure ==
    \/ \E c \in OwnCharacters : Client_connect_upto(c, MaxSessions)
    \/ \E s \in SessIds : connect_internal(s)
    \/ \E s \in SessIds : Session_connect(s)
    \/ \E s \in SessIds : event_loop_handle(s, BurstFrames, MaxBurst)
    \/ \E s \in SessIds : event_loop_emit(s)
    \/ dispatch

SpecBackpressure == Init /\ [][NextBackpressure]_vars

\* The events of a session that are produced and not dispatched: the ones on
\* the channel, then the one it holds while its emit waits.
Undispatched(s) ==
    OnChannel(s) \o (IF pc[s] = "emitting" THEN <<Held(s)>> ELSE <<>>)

\* C26: the event channel never holds more than 8 events; no event is dropped
\* when it is full (every event a session produced and the dispatcher has not
\* taken is on the channel or held by the waiting emit); and a session whose
\* emit waits reads and handles no further frame until the held event has
\* been put on the channel, which happens only when there is room.
C26_BoundedChannelBackpressure ==
    [][/\ Len(queue') <= ChannelCapacity
       /\ \A s \in SessIds : pending'[s] = Undispatched(s)'
       /\ \A s \in SessIds : pc[s] = "emitting" =>
            /\ pending'[s] \in {pending[s], Tail(pending[s])}
            /\ \/ pc'[s] = "emitting"
               \/ /\ Len(queue) < ChannelCapacity
                  /\ queue' = Append(queue, Held(s))
                  /\ pc'[s] = "running"]_vars

\* The channel is full and a session waits with an event in hand.
C26_Witness ==
    /\ Len(queue) = ChannelCapacity
    /\ \E s \in SessIds : pc[s] = "emitting" /\ ~InQueue(Held(s))

(***************************************************************************)
(* prepare_command.  A ClientCommand is a ClientFrame; the text of a frame *)
(* is the sequence of the pieces written into the buffer: literal text,    *)
(* and JSON values as to_writer prints them.                               *)
(***************************************************************************)
\* protocol.rs:58  the variants of enum ClientCommand that have no fields
UnitTags == {"CHA", "ORS", "PIN", "UPT"}
\* variants with the one field channel, the one field character, and both
ChannelTags == {"CBL", "COL", "JCH", "KIC", "KIK", "LCH"}
CharacterTags == {"ACB", "AOP", "AWC", "DOP", "KIN", "PRO", "RWD", "UNB"}
ChannelCharacterTags == {"CBU", "CIU", "CKU", "COA", "COR", "CSO", "CTU", "CUB"}

ClientCommands ==
    {ClientFrame(t, None, None) : t \in UnitTags}
    \cup {ClientFrame(t, ch, None) : t \in ChannelTags, ch \in Channels}
    \cup {ClientFrame(t, None, c) : t \in CharacterTags, c \in Characters}
    \cup {ClientFrame(t, ch, c) : t \in ChannelCharacterTags, ch \in Channels,
                                  c \in Characters}

Text(s) == [piece |-> "text", s |-> s, fields |-> {}]
JsonNull == [piece |-> "json", s |-> "null", fields |-> {}]
JsonObject(fields) == [piece |-> "json", s |-> "object", fields |-> fields]

\* The fields of a command's variant, as name and value.
Fields(c) ==
    (IF c.channel # None THEN {<<"channel", c.channel>>} ELSE {})
    \cup (IF c.character # None THEN {<<"character", c.character>>} ELSE {})

\* to_value of #[serde(tag = "command", content = "data")]: a unit variant
\* is {"command": tag}, with no "data" entry.
to_value(c) ==
    [command |-> c.cmd, has_data |-> c.cmd \notin UnitTags,
     data |-> IF c.cmd \in UnitTags THEN JsonNull ELSE JsonObject(Fields(c))]

\* from_value into CommandDummy: #[serde(default)] data is Value::Null when
\* the entry is missing.
CommandDummy(v) ==
    [command |-> v.command, data |-> IF v.has_data THEN v.data ELSE JsonNull]

\* write!("{} ", command), then to_writer(data)
write_command(dummy_value) ==
    <<Text(dummy_value.command), Text(" "), dummy_value.data>>

prepare_command(c) == write_command(CommandDummy(to_value(c)))

\* Everything but the application's task.
libVars == <<sessVars, clientVars, ghostVars, histVars, tokenVars, pending, cache, active,
             write>>

Calling(op, args) ==
    {[Idle EXCEPT !.op = op, !.pc = "call", !.arg = a] : a \in args}

InitPrepare ==
    /\ InitClient
    /\ cache = EmptyCache
    /\ active = [t \in Tasks |-> None]
    /\ app \in Calling("prepare_command", ClientCommands)

Call_prepare_command ==
    /\ app.op = "prepare_command"
    /\ app.pc = "call"
    /\ app' = [app EXCEPT !.pc = "done", !.ret = prepare_command(app.arg)]
    /\ UNCHANGED libVars

NextPrepare == Call_prepare_command

SpecPrepare == InitPrepare /\ [][NextPrepare]_vars

\* C29: the frame of a ClientCommand without a body (PIN, UPT, CHA, ORS) is its
\* three-letter tag and nothing more; the frame of a command with a body is
\* the tag, one space, and the JSON object of its fields.
C29_FrameIsTagThenBody ==
    app.op = "prepare_command" /\ app.pc = "done" =>
        IF app.arg.cmd \in UnitTags
        THEN app.ret = <<Text(app.arg.cmd)>>
        ELSE app.ret = <<Text(app.arg.cmd), Text(" "), JsonObject(Fields(app.arg))>>

(***************************************************************************)
(* The string-or-native scalars: KinkId (u32), StringInteger (u64) and     *)
(* StringBool (bool), each #[serde(into = proxy, try_from = proxy)] with   *)
(* an untagged proxy enum { String(String), Other(native) }.  A string is  *)
(* the sequence of its characters.                                         *)
(***************************************************************************)
Wrappers == {"KinkId", "StringInteger", "StringBool"}
IntegerWrappers == {"KinkId", "StringInteger"}

DigitChars == <<"0", "1", "2", "3", "4", "5", "6", "7", "8", "9">>
IsDigit(ch) == \E d \in 0..9 : DigitChars[d + 1] = ch
DigitOf(ch) == CHOOSE d \in 0..9 : DigitChars[d + 1] = ch

\* <u32 as Display>::to_string, <u64 as Display>::to_string
RECURSIVE int_to_string(_)
int_to_string(n) ==
    IF n < 10 THEN <<DigitChars[n + 1]>>
    ELSE Append(int_to_string(n \div 10), DigitChars[(n % 10) + 1])

\* <bool as Display>::to_string
bool_to_string(b) == IF b THEN <<"t", "r", "u", "e">> ELSE <<"f", "a", "l", "s", "e">>

\* A scalar of either kind: the integer of KinkId and StringInteger, or the
\* boolean of StringBool.
IntValue(n) == [n |-> n, b |-> FALSE]
BoolValue(b) == [n |-> 0, b |-> b]

to_string(w, v) ==
    IF w \in IntegerWrappers THEN int_to_string(v.n) ELSE bool_to_string(v.b)

Ok(v) == [ok |-> TRUE, v |-> v]
Err == [ok |-> FALSE, v |-> IntValue(0)]

\* <u32 as FromStr>::from_str: digits only, at least one, most significant first.
RECURSIVE int_parse_from(_, _)
int_parse_from(acc, chars) ==
    IF chars = <<>> THEN Ok(IntValue(acc))
    ELSE IF ~IsDigit(Head(chars)) THEN Err
    ELSE int_parse_from(acc * 10 + DigitOf(Head(chars)), Tail(chars))
int_parse(chars) == IF chars = <<>> THEN Err ELSE int_parse_from(0, chars)

\* <bool as FromStr>::from_str
bool_parse(chars) ==
    IF chars = bool_to_string(TRUE) THEN Ok(BoolValue(TRUE))
    ELSE IF chars = bool_to_string(FALSE) THEN Ok(BoolValue(FALSE))
    ELSE Err

parse(w, chars) == IF w \in IntegerWrappers THEN int_parse(chars) ELSE bool_parse(chars)

\* JSON scalars, and the proxy enum's two variants.
JsonString(chars) == [json |-> "string", chars |-> chars, n |-> 0, b |-> FALSE]
JsonNumber(n) == [json |-> "number", chars |-> <<>>, n |-> n, b |-> FALSE]
JsonBool(b) == [json |-> "bool", chars |-> <<>>, n |-> 0, b |-> b]
Native(w, v) == IF w \in IntegerWrappers THEN JsonNumber(v.n) ELSE JsonBool(v.b)

ProxyString(chars) == [variant |-> "String", chars |-> chars, native |-> JsonNumber(0)]
ProxyOther(w, v) == [variant |-> "Other", chars |-> <<>>, native |-> Native(w, v)]

\* A variant of the conversion into the proxy that keeps the native value.
into_proxy_native(w, v) == ProxyOther(w, v)
\* impl From<$i> for $pi: $pi::String(v.0.to_string())
into_proxy(w, v) == ProxyString(to_string(w, v))

\* #[serde(untagged)] Serialize: the variant's content, bare.
serialize(w, v) ==
    LET p == into_proxy(w, v) IN
    IF p.variant = "String" THEN JsonString(p.chars) ELSE p.native

\* #[serde(untagged)] Deserialize, then TryFrom<$pi>: a JSON string is
\* String(val) and is parsed; the native scalar is Other(val); anything
\* else matches no variant.
deserialize(w, j) ==
    IF j.json = "string" THEN parse(w, j.chars)
    ELSE IF w \in IntegerWrappers /\ j.json = "number" THEN Ok(IntValue(j.n))
    ELSE IF w = "StringBool" /\ j.json = "bool" THEN Ok(BoolValue(j.b))
    ELSE Err

\* The values tried: the small ones, and three larger ones up to 2^31 - 1.
MaxSmall == 40
ScalarValues(w) ==
    IF w \in IntegerWrappers
    THEN {IntValue(n) : n \in (0..MaxSmall) \cup {621, 65535, 2147483647}}
    ELSE {BoolValue(b) : b \in BOOLEAN}
Scalars ==
    UNION {{[w |-> w, v |-> v, j |-> JsonNumber(0)] : v \in ScalarValues(w)} : w \in Wrappers}
\* JSON a server may put where a scalar is read.
OddJson ==
    {JsonString(<<>>), JsonString(<<"x">>), JsonString(<<"0", "7">>), JsonString(<<"7">>),
     JsonString(<<"t", "r", "u", "e">>), JsonNumber(7), JsonBool(TRUE)}
Documents == {[w |-> w, v |-> IntValue(0), j |-> j] : w \in Wrappers, j \in OddJson}

InitScalars ==
    /\ InitClient
    /\ cache = EmptyCache
    /\ active = [t \in Tasks |-> None]
    /\ app \in Calling("serialize", Scalars) \cup Calling("deserialize", Documents)

\* to_string(&value): the value, then its JSON.
Call_serialize ==
    /\ app.op = "serialize"
    /\ app.pc = "call"
    /\ app' = [app EXCEPT !.pc = "serialized",
                          !.arg = [@ EXCEPT !.j = serialize(app.arg.w, app.arg.v)]]
    /\ UNCHANGED libVars

\* from_str on the JSON just written, or on a document of the server's.
Call_deserialize ==
    /\ \/ app.op = "serialize" /\ app.pc = "serialized"
       \/ app.op = "deserialize" /\ app.pc = "call"
    /\ app' = [app EXCEPT !.pc = "done", !.ret = deserialize(app.arg.w, app.arg.j)]
    /\ UNCHANGED libVars

\* from_str on the native form of a value.
Call_deserialize_native ==
    /\ app.op = "serialize"
    /\ app.pc = "call"
    /\ app' = [app EXCEPT !.op = "deserialize", !.pc = "done",
                          !.arg = [@ EXCEPT !.j = Native(app.arg.w, app.arg.v)],
                          !.ret = deserialize(app.arg.w, Native(app.arg.w, app.arg.v))]
    /\ UNCHANGED libVars

NextScalars ==
    \/ Call_serialize
    \/ Call_deserialize
    \/ Call_deserialize_native

SpecScalars == InitScalars /\ [][NextScalars]_vars

\* The number a string of decimal digits denotes, by the weight of each place.
RECURSIVE Pow10(_)
Pow10(k) == IF k = 0 THEN 1 ELSE 10 * Pow10(k - 1)
RECURSIVE Numeral(_)
Numeral(chars) ==
    IF chars = <<>> THEN 0
    ELSE DigitOf(Head(chars)) * Pow10(Len(chars) - 1) + Numeral(Tail(chars))
\* The string-quoted form of a scalar: the decimal digits of the integer, no
\* leading zero, or the word of the boolean.
QuotedForm(w, v, chars) ==
    IF w \in IntegerWrappers
    THEN /\ chars # <<>>
         /\ \A i \in 1..Len(chars) : IsDigit(chars[i])
         /\ Len(chars) > 1 => chars[1] # "0"
         /\ Numeral(chars) = v.n
    ELSE chars = (IF v.b THEN <<"t", "r", "u", "e">> ELSE <<"f", "a", "l", "s", "e">>)

\* C30: a KinkId, StringInteger or StringBool is serialised as a JSON string,
\* the decimal digits or the word of its value; reading that string back
\* gives the value again; and reading the native JSON number or boolean of a
\* value gives that value too.
C30_ScalarsRoundTrip ==
    /\ app.op = "serialize" /\ app.pc \in {"serialized", "done"} =>
        /\ app.arg.j.json = "string"
        /\ QuotedForm(app.arg.w, app.arg.v, app.arg.j.chars)
    /\ app.op = "serialize" /\ app.pc = "done" => app.ret = Ok(app.arg.v)
    /\ app.op = "deserialize" /\ app.pc = "done" =>
        /\ app.arg.j = Native(app.arg.w, app.arg.v) => app.ret = Ok(app.arg.v)
        /\ app.arg.w \in IntegerWrappers /\ app.arg.j \in {JsonString(<<"7">>), JsonNumber(7)}
            => app.ret = Ok(IntValue(7))
        /\ app.arg.w = "StringBool"
           /\ app.arg.j \in {JsonString(<<"t", "r", "u", "e">>), JsonBool(TRUE)}
            => app.ret = Ok(BoolValue(TRUE))

\* KinkId(621) has been written as "621" and read back.
C30_Witness ==
    /\ app.op = "serialize" /\ app.pc = "done"
    /\ app.arg.w = "KinkId" /\ app.arg.v = IntValue(621)
    /\ app.arg.j = JsonString(<<"6", "2", "1">>)
    /\ app.ret.ok

(***************************************************************************)
(* ClientBuilder::init.  The ticket endpoint's answer holds the account's  *)
(* characters with their ids, the id of the default character, the         *)
(* bookmarks and the friends.                                              *)
(***************************************************************************)
Bookmark(c) == [name |-> c]
Friend(dest, source) == [dest |-> dest, source |-> source]
\* A variant of the relation that takes the friend for the own character.
FriendRelationSwapped(v) == [own_character |-> v.source, other_character |-> v.dest]
\* FriendRelation{own_character: v.dest, other_character: v.source}
FriendRelation(v) == [own_character |-> v.dest, other_character |-> v.source]

Map(f(_), q) == [i \in 1..Len(q) |-> f(q[i])]
NameOf(v) == v.name

CharacterMaps ==
    {{}, {<<"Alice", 1>>}, {<<"Alice", 1>>, <<"Bob", 2>>}, {<<"Alice", 2>>, <<"Bob", 2>>}}
CharacterIds == 1..3
BookmarkLists == {<<>>, <<Bookmark("Bob")>>, <<Bookmark("Carol"), Bookmark("Bob")>>}
FriendLists ==
    {<<>>, <<Friend("Alice", "Bob")>>, <<Friend("Alice", "Carol"), Friend("Bob", "Alice")>>}
TicketResponses ==
    {[characters |-> m, default_character |-> d, bookmarks |-> b, friends |-> f] :
        m \in CharacterMaps, d \in CharacterIds, b \in BookmarkLists, f \in FriendLists}

\* extra.characters.iter().find_map(...): the characters whose id is the default's
DefaultCandidates(extra) ==
    {p[1] : p \in {q \in extra.characters : q[2] = extra.default_character}}

\* Cache::set_bookmarks, Cache::set_friends: what the cache holds afterwards.
set_bookmarks(c, bookmarks) == [c EXCEPT !.bookmarks = bookmarks]
set_friends(c, friends) == [c EXCEPT !.friends = friends]

Built(result, c) == [result |-> result, client |-> result = "Ok", cache |-> c]

(*   fetch: get_api_ticket fails ("RequestError"), answers without the     *)
(*          extra fields ("bare") or with them ("extra");                  *)
(*   ok1, ok2: set_bookmarks and set_friends return Ok.                    *)
ClientBuilder_init(extra, fetch, ok1, ok2) ==
    IF fetch = "RequestError" THEN Built("RequestError", cache)
    ELSE IF fetch = "bare" THEN Built("panic", cache)
    ELSE IF DefaultCandidates(extra) = {} THEN Built("NoDefaultCharacter", cache)
    ELSE IF ~ok1 THEN Built("panic", cache)
    ELSE LET c1 == set_bookmarks(cache, Map(NameOf, extra.bookmarks)) IN
         IF ~ok2 THEN Built("panic", c1)
         ELSE Built("Ok", set_friends(c1, Map(FriendRelation, extra.friends)))

InitBuilder ==
    /\ InitClient
    /\ cache = EmptyCache
    /\ active = [t \in Tasks |-> None]
    /\ app \in Calling("init", TicketResponses)

Call_init ==
    /\ app.op = "init"
    /\ app.pc = "call"
    /\ \E fetch \in {"RequestError", "bare", "extra"}, ok1, ok2 \in BOOLEAN :
       LET r == ClientBuilder_init(app.arg, fetch, ok1, ok2) IN
        /\ app' = [app EXCEPT !.pc = "done",
                              !.ret = [result |-> r.result, client |-> r.client,
                                       fetch |-> fetch]]
        /\ cache' = r.cache
    /\ UNCHANGED <<sessVars, clientVars, ghostVars, histVars, tokenVars, pending, active,
                   write>>

NextBuilder == Call_init

SpecBuilder == InitBuilder /\ [][NextBuilder]_vars

\* C27: when the ticket endpoint's answer names a default character that is
\* not among the returned characters, ClientBuilder::init fails with
\* NoDefaultCharacter and returns no client; when init succeeds, the cache
\* holds the returned bookmarks, and one relation per returned friend with
\* own_character the friend's dest and other_character its source.
C27_InitDefaultCharacterAndSeed ==
    app.op = "init" /\ app.pc = "done" =>
        LET extra == app.arg IN
        /\ app.ret.fetch = "extra"
           /\ (\A p \in extra.characters : p[2] # extra.default_character) =>
            /\ app.ret.result = "NoDefaultCharacter"
            /\ ~app.ret.client
        /\ app.ret.result = "Ok" =>
            /\ app.ret.client
            /\ Len(cache.bookmarks) = Len(extra.bookmarks)
            /\ \A i \in 1..Len(extra.bookmarks) : cache.bookmarks[i] = extra.bookmarks[i].name
            /\ Len(cache.friends) = Len(extra.friends)
            /\ \A i \in 1..Len(extra.friends) :
                /\ cache.friends[i].own_character = extra.friends[i].dest
                /\ cache.friends[i].other_character = extra.friends[i].source

\* init has succeeded on an answer with two characters, two bookmarks and two
\* friends.
C27_Witness ==
    /\ app.op = "init" /\ app.pc = "done"
    /\ app.ret.result = "Ok"
    /\ Cardinality(app.arg.characters) = 2
    /\ Len(cache.bookmarks) = 2 /\ Len(cache.friends) = 2

(***************************************************************************)
(* Client::sync_friends_bookmarks, called by the application on its own    *)
(* task while the dispatcher runs: one step for each thing it does.        *)
(***************************************************************************)
SeededCache ==
    [bookmarks |-> <<"Carol">>, friends |-> <<FriendRelation(Friend("Alice", "Carol"))>>]

\* http_endpoints.rs:366  FriendListResponse: bookmarklist and friendlist
FriendListResponses ==
    {[bookmarks |-> b, friends |-> f] :
        b \in {<<"Carol">>, <<"Bob">>},
        f \in {<<Friend("Alice", "Carol")>>, <<Friend("Alice", "Bob")>>}}

Syncing ==
    [Idle EXCEPT !.op = "sync", !.pc = "call",
                 !.ret = [update_bookmarks |-> FALSE, update_friends |-> FALSE,
                          result |-> None, called |-> <<>>]]

InitSync ==
    /\ InitClient
    /\ cache = SeededCache
    /\ active = [t \in Tasks |-> None]
    /\ app = Syncing

(*   self.refresh_fast().await?, then get_friends_list(...).await?.inner   *)
Sync_fetch ==
    /\ app.op = "sync"
    /\ app.pc = "call"
    /\ \E fetch_ok, list_ok \in BOOLEAN, list \in FriendListResponses :
       LET r == refresh_fast(fetch_ok) IN
        /\ r.asked => issued < MaxTickets
        /\ token' = r.token
        /\ issued' = r.issued
        /\ app' = IF r.result # "ok" \/ ~list_ok
                  THEN [app EXCEPT !.pc = "done", !.ret.result = "RequestError"]
                  ELSE [app EXCEPT !.pc = "set_bookmarks", !.arg = list]
    /\ UNCHANGED <<sessVars, clientVars, ghostVars, histVars, now, pending, cache, active,
                   write>>

(*   self.cache.set_bookmarks(list.bookmarks.into()).unwrap()              *)
(*   res: what the cache returns, Ok(true), Ok(false) or Err.              *)
Sync_set_bookmarks ==
    /\ app.op = "sync"
    /\ app.pc = "set_bookmarks"
    /\ \E res \in {"true", "false", "err"} :
        IF res = "err"
        THEN /\ app' = [app EXCEPT !.pc = "panicked", !.ret.result = "panic"]
             /\ cache' = cache
        ELSE /\ app' = [app EXCEPT !.pc = "set_friends",
                                   !.ret.update_bookmarks = (res = "true")]
             /\ cache' = set_bookmarks(cache, app.arg.bookmarks)
    /\ UNCHANGED <<sessVars, clientVars, ghostVars, histVars, tokenVars, pending, active,
                   write>>

(*   self.cache.set_friends(...FriendRelation{...}...).unwrap()            *)
Sync_set_friends ==
    /\ app.op = "sync"
    /\ app.pc = "set_friends"
    /\ \E res \in {"true", "false", "err"} :
        IF res = "err"
        THEN /\ app' = [app EXCEPT !.pc = "panicked", !.ret.result = "panic"]
             /\ cache' = cache
        ELSE /\ app' = [app EXCEPT !.pc = "updated_bookmarks",
                                   !.ret.update_friends = (res = "true")]
             /\ cache' = set_friends(cache, Map(FriendRelation, app.arg.friends))
    /\ UNCHANGED <<sessVars, clientVars, ghostVars, histVars, tokenVars, pending, active,
                   write>>

(*   if update_bookmarks {self.event_listener.updated_bookmarks().await}:  *)
(*   skipped, entered, or returned from.                                   *)
Sync_updated_bookmarks ==
    /\ app.op = "sync"
    /\ \/ /\ app.pc = "updated_bookmarks"
          /\ IF app.ret.update_bookmarks
             THEN /\ app' = [app EXCEPT !.pc = "in updated_bookmarks",
                                        !.ret.called = Append(@, "updated_bookmarks")]
                  /\ active' = [active EXCEPT !["application"] = "updated_bookmarks"]
             ELSE /\ app' = [app EXCEPT !.pc = "updated_friends"]
                  /\ active' = active
       \/ /\ app.pc = "in updated_bookmarks"
          /\ app' = [app EXCEPT !.pc = "updated_friends"]
          /\ active' = [active EXCEPT !["application"] = None]
    /\ UNCHANGED <<sessVars, clientVars, ghostVars, histVars, tokenVars, pending, cache,
                   write>>

(*   if update_friends {self.event_listener.updated_friends().await}, and  *)
(*   Ok(update_friends || update_bookmarks)                                *)
Returned(a) ==
    [a EXCEPT !.pc = "done",
              !.ret.result = IF a.ret.update_friends \/ a.ret.update_bookmarks
                             THEN "Ok(true)" ELSE "Ok(false)"]

Sync_updated_friends ==
    /\ app.op = "sync"
    /\ \/ /\ app.pc = "updated_friends"
          /\ IF app.ret.update_friends
             THEN /\ app' = [app EXCEPT !.pc = "in updated_friends",
                                        !.ret.called = Append(@, "updated_friends")]
                  /\ active' = [active EXCEPT !["application"] = "updated_friends"]
             ELSE /\ app' = Returned(app)
                  /\ active' = active
       \/ /\ app.pc = "in updated_friends"
          /\ app' = Returned(app)
          /\ active' = [active EXCEPT !["application"] = None]
    /\ UNCHANGED <<sessVars, clientVars, ghostVars, histVars, tokenVars, pending, cache,
                   write>>

NextSync ==
    \/ \E c \in OwnCharacters : Client_connect(c)
    \/ \E s \in SessIds : connect_internal(s)
    \/ \E s \in SessIds : Session_connect(s)
    \/ \E s \in SessIds : event_loop(s, BurstFrames)
    \/ dispatch_callback
    \/ dispatch
    \/ Sync_fetch
    \/ Sync_set_bookmarks
    \/ Sync_set_friends
    \/ Sync_updated_bookmarks
    \/ Sync_updated_friends

SpecSync == InitSync /\ [][NextSync]_vars

\* What sync_friends_bookmarks has to leave in the cache.
Fetched(list) ==
    [bookmarks |-> list.bookmarks, friends |-> Map(FriendRelation, list.friends)]
\* The callbacks a completed sync_friends_bookmarks owes.
Owed(ret) ==
    (IF ret.update_bookmarks THEN <<"updated_bookmarks">> ELSE <<>>)
    \o (IF ret.update_friends THEN <<"updated_friends">> ELSE <<>>)

\* C28: sync_friends_bookmarks replaces the cache's bookmarks and friends in
\* one step, so that the cache never holds the new bookmarks beside the old
\* friends; it calls updated_bookmarks iff set_bookmarks returned true and
\* updated_friends iff set_friends returned true; and it returns true iff one
\* of the two did.
C28_SyncReplacesAtomicallyAndNotifies ==
    [][/\ app.op = "sync" /\ cache' # cache => cache' = Fetched(app.arg)
       /\ app'.op = "sync" /\ app'.pc = "done" /\ app'.ret.result # "RequestError" =>
            /\ app'.ret.called = Owed(app'.ret)
            /\ app'.ret.result =
                 (IF app'.ret.update_bookmarks \/ app'.ret.update_friends
                  THEN "Ok(true)" ELSE "Ok(false)")]_vars

\* C21: at most one listener callback of the client is in progress at any
\* time, whichever way the dispatch loop interleaves with the client's
\* other operations running on other tasks.
C21_OneCallbackAtATime ==
    Cardinality({t \in Tasks : active[t] # None}) <= 1

(***************************************************************************)
(* ProtocolError::from(code) and is_fatal, applied to the number of an ERR *)
(* frame: every code from -MaxCode to MaxCode, and the default's own       *)
(* number and its neighbours.                                              *)
(***************************************************************************)
MaxCode == 75
ErrCodes == (-MaxCode..MaxCode) \cup {Other - 1, Other, Other + 1}

InitClassify ==
    /\ InitClient
    /\ cache = EmptyCache
    /\ active = [t \in Tasks |-> None]
    /\ app \in Calling("is_fatal", ErrCodes)

Call_is_fatal ==
    /\ app.op = "is_fatal"
    /\ app.pc = "call"
    /\ app' = [app EXCEPT !.pc = "done",
                          !.ret = [error |-> ProtocolErrorFrom(app.arg),
                                   fatal |-> is_fatal(ProtocolErrorFrom(app.arg))]]
    /\ UNCHANGED libVars

NextClassify == Call_is_fatal

SpecClassify == InitClassify /\ [][NextClassify]_vars

\* C33: whether an ERR is fatal depends on its number alone: it is fatal
\* exactly for 2, 9, 30, 31, 33, 39, 40 and for -1 (the internal error); every
\* other number is not fatal, and a number the protocol does not list is
\* taken for Other, which is not fatal.
C33_FatalExactlyTheListedCodes ==
    app.op = "is_fatal" /\ app.pc = "done" =>
        /\ app.ret.fatal <=> app.arg \in {2, 9, 30, 31, 33, 39, 40, -1}
        /\ app.arg \notin KnownCodes => app.ret.error = Other /\ ~app.ret.fatal
        /\ app.arg \in KnownCodes => app.ret.error = app.arg

\* The internal error has been classified, and found fatal.
C33_Witness ==
    app.op = "is_fatal" /\ app.pc = "done" /\ app.arg = -1 /\ app.ret.fatal

(***************************************************************************)
(* parse_command on an LIS frame.  The body's "characters" is a list of    *)
(* arrays [name, gender, status, status message], each a                   *)
(* FlatCharacterData; gender and status are enums read by their serde      *)
(* names, and a name that is no variant's fails the whole from_value,      *)
(* which parse_command expects.                                            *)
(***************************************************************************)
\* data.rs:332  enum Gender, rename_all = "PascalCase" and the two renames
GenderNames ==
    {<<"Male", "Male">>, <<"Female", "Female">>, <<"Transgender", "Transgender">>,
     <<"Herm", "Herm">>, <<"Shemale", "Shemale">>, <<"Male-Herm", "MaleHerm">>,
     <<"Cunt-Boy", "CBoy">>, <<"None", "None">>}
\* data.rs:435  enum Status, rename_all = "lowercase"
StatusNames ==
    {<<"online", "Online">>, <<"looking", "Looking">>, <<"busy", "Busy">>,
     <<"dnd", "Dnd">>, <<"idle", "Idle">>, <<"away", "Away">>, <<"crown", "Crown">>}

\* Deserialize of a unit-variant enum: the variant with that name, if any.
HasVariant(names, str) == \E p \in names : p[1] = str
VariantOf(names, str) == (CHOOSE p \in names : p[1] = str)[2]

FlatCharacterData(name, gender, status, message) ==
    [name |-> name, gender |-> gender, status |-> status, message |-> message]

\* from_value::<ServerCommand> of {"command": "LIS", "data": {"characters": [...]}}
from_value_ListOnline(characters) ==
    IF \A i \in 1..Len(characters) :
          /\ HasVariant(GenderNames, characters[i][2])
          /\ HasVariant(StatusNames, characters[i][3])
    THEN [panic |-> FALSE,
          characters |-> [i \in 1..Len(characters) |->
             FlatCharacterData(characters[i][1],
                               VariantOf(GenderNames, characters[i][2]),
                               VariantOf(StatusNames, characters[i][3]),
                               characters[i][4])]]
    ELSE [panic |-> TRUE, characters |-> <<>>]

\* What the server sends: the names of the chat's genders and statuses.
MaxEntries == 2
SentGenders == {"Female", "Herm", "Male-Herm", "Cunt-boy"}
SentStatuses == {"online", "looking"}
SentEntries ==
    {<<n, g, s, m>> : n \in {"Alexandrea", "Viol"}, g \in SentGenders, s \in SentStatuses,
                      m \in {"", "Away"}}
SentLists == UNION {[1..k -> SentEntries] : k \in 0..MaxEntries}

InitListOnline ==
    /\ InitClient
    /\ cache = EmptyCache
    /\ active = [t \in Tasks |-> None]
    /\ app \in Calling("parse_command", SentLists)

Call_parse_command ==
    /\ app.op = "parse_command"
    /\ app.pc = "call"
    /\ app' = [app EXCEPT !.pc = "done", !.ret = from_value_ListOnline(app.arg)]
    /\ UNCHANGED libVars

NextListOnline == Call_parse_command

SpecListOnline == InitListOnline /\ [][NextListOnline]_vars

\* The chat's names for the genders and statuses, and the variants they mean.
WireGender ==
    {<<"Male", "Male">>, <<"Female", "Female">>, <<"Transgender", "Transgender">>,
     <<"Herm", "Herm">>, <<"Shemale", "Shemale">>, <<"Male-Herm", "MaleHerm">>,
     <<"Cunt-boy", "CBoy">>, <<"None", "None">>}
WireStatus ==
    {<<"online", "Online">>, <<"looking", "Looking">>, <<"busy", "Busy">>,
     <<"dnd", "Dnd">>, <<"idle", "Idle">>, <<"away", "Away">>, <<"crown", "Crown">>}

\* C32: decoding an LIS frame gives a ListOnline with one entry per inner
\* array of "characters", in the same order, each with the array's name, the
\* gender variant of its wire name (Cunt-boy is CBoy), the status variant of
\* its wire name, and the status message as sent.
C32_ListOnlineDecodesEveryEntry ==
    app.op = "parse_command" /\ app.pc = "done" =>
        /\ ~app.ret.panic
        /\ Len(app.ret.characters) = Len(app.arg)
        /\ \A i \in 1..Len(app.arg) :
            /\ app.ret.characters[i].name = app.arg[i][1]
            /\ <<app.arg[i][2], app.ret.characters[i].gender>> \in WireGender
            /\ <<app.arg[i][3], app.ret.characters[i].status>> \in WireStatus
            /\ app.ret.characters[i].message = app.arg[i][4]

(***************************************************************************)
(* prepare_command on ClientCommand::Search: six lists, the kinks KinkIds  *)
(* and the rest unit-variant enums written by their serde names.           *)
(***************************************************************************)
\* data.rs:345  enum Orientation
OrientationNames ==
    {<<"Straight", "Straight">>, <<"Gay", "Gay">>, <<"Bisexual", "Bisexual">>,
     <<"Asexual", "Asexual">>, <<"Unsure", "Unsure">>,
     <<"Bi - male preference", "BiMalePref">>, <<"Bi - female preference", "BiFemalePref">>,
     <<"Pansexual", "Pansexual">>, <<"Bi-curious", "Bicurious">>}
\* data.rs:359  enum Language (these three of it)
LanguageNames == {<<"Dutch", "Dutch">>, <<"English", "English">>, <<"Other", "Other">>}
\* data.rs:378  enum FurryPreference
FurryPreferenceNames ==
    {<<"No furry characters, just humans", "HumanOnly">>,
     <<"Furries ok, Humans Preferred", "HumanPref">>,
     <<"Furs and / or humans", "Both">>,
     <<"Humans ok, Furries Preferred", "FurryPref">>,
     <<"No humans, just furry characters", "FurryOnly">>}
\* data.rs:387  enum Role
RoleNames ==
    {<<"Always dominant", "AlwaysDom">>, <<"Usually dominant", "UsuallyDom">>,
     <<"Switch", "Switch">>, <<"Usually submissive", "UsuallySub">>,
     <<"Always submissive", "AlwaysSub">>, <<"None", "None">>}

\* Serialize of a unit-variant enum: the variant's name.
NameOfVariant(names, variant) == (CHOOSE p \in names : p[2] = variant)[1]

KinkJson(k) == serialize("KinkId", IntValue(k))
GenderJson(g) == NameOfVariant(GenderNames, g)
OrientationJson(o) == NameOfVariant(OrientationNames, o)
LanguageJson(l) == NameOfVariant(LanguageNames, l)
FurryPreferenceJson(f) == NameOfVariant(FurryPreferenceNames, f)
RoleJson(r) == NameOfVariant(RoleNames, r)

\* to_value of ClientCommand::Search { kinks, genders, ... }
to_value_Search(c) ==
    [command |-> "FKS", has_data |-> TRUE,
     data |-> JsonObject([kinks |-> Map(KinkJson, c.kinks),
                          genders |-> Map(GenderJson, c.genders),
                          orientations |-> Map(OrientationJson, c.orientations),
                          languages |-> Map(LanguageJson, c.languages),
                          furryprefs |-> Map(FurryPreferenceJson, c.furryprefs),
                          roles |-> Map(RoleJson, c.roles)])]

prepare_command_Search(c) == write_command(CommandDummy(to_value_Search(c)))

MaxTerms == 2
UpTo(S, n) == UNION {[1..k -> S] : k \in 0..n}
Searches ==
    {[kinks |-> k, genders |-> g, orientations |-> o, languages |-> <<"Dutch">>,
      furryprefs |-> <<"Both", "FurryPref", "FurryOnly">>, roles |-> r] :
        k \in UpTo({523, 66, 7}, MaxTerms),
        g \in UpTo({"Male", "MaleHerm", "CBoy"}, MaxTerms),
        o \in {<<>>, <<"Gay", "BiMalePref", "Bisexual">>},
        r \in {<<>>, <<"AlwaysDom", "UsuallyDom">>}}

InitSearch ==
    /\ InitClient
    /\ cache = EmptyCache
    /\ active = [t \in Tasks |-> None]
    /\ app \in Calling("prepare_command(Search)", Searches)

Call_prepare_command_Search ==
    /\ app.op = "prepare_command(Search)"
    /\ app.pc = "call"
    /\ app' = [app EXCEPT !.pc = "done", !.ret = prepare_command_Search(app.arg)]
    /\ UNCHANGED libVars

NextSearch == Call_prepare_command_Search

SpecSearch == InitSearch /\ [][NextSearch]_vars

Named(variants, strs, names) ==
    /\ Len(strs) = Len(variants)
    /\ \A i \in 1..Len(variants) : <<strs[i], variants[i]>> \in names

\* C31: the frame of a Search is FKS, a space and a JSON object that lists
\* every kink id as a string of its decimal digits, not as a number, in the
\* order given, and every gender, orientation, language, furry preference
\* and role by its wire name, in the order given.
C31_SearchFrame ==
    app.op = "prepare_command(Search)" /\ app.pc = "done" =>
        LET c == app.arg  body == app.ret[3].fields IN
        /\ Len(app.ret) = 3
        /\ app.ret[1] = Text("FKS") /\ app.ret[2] = Text(" ")
        /\ app.ret[3].s = "object"
        /\ Len(body.kinks) = Len(c.kinks)
        /\ \A i \in 1..Len(c.kinks) :
            /\ body.kinks[i].json = "string"
            /\ QuotedForm("KinkId", IntValue(c.kinks[i]), body.kinks[i].chars)
        /\ Named(c.genders, body.genders, WireGender)
        /\ Named(c.orientations, body.orientations, OrientationNames)
        /\ Named(c.languages, body.languages, LanguageNames)
        /\ Named(c.furryprefs, body.furryprefs, FurryPreferenceNames)
        /\ Named(c.roles, body.roles, RoleNames)

(***************************************************************************)
(* The life of a session object.                                           *)
(***************************************************************************)
\* The event a step put on the channel, if it put one.
Emits == Len(queue') = Len(queue) + 1
Closing(ev) == ev.event \in {"Reconnect", "Disconnected"}
\* The dispatcher has taken the closing event of s off the channel.
CloseDispatched(s) ==
    /\ pc[s] = "closed"
    /\ \A i \in 1..Len(queue) : queue[i].session = s => ~Closing(queue[i])

MaxPings == 1

Holders(s) == {w \in Writers : write[w].pc = "locked" /\ write[w].session = s}
\* A variant of the lock that lets everyone in.
FreeAlways(s) == TRUE
\* self.write.lock().await returns once no guard is alive.
Free(s) == Holders(s) = {}

Awaiting(s, frames) == [pc |-> "lock", session |-> s, frames |-> frames]

\* session.rs:264  Session::send, from the call to lock().await.
Session_send(w, s) ==
    /\ w \in {"application", "application2"}
    /\ write[w].pc = "idle"
    /\ Listed(s)
    /\ write' = [write EXCEPT ![w] = Awaiting(s, <<ClientFrame("MSG", "Frontpage", None)>>)]
    /\ obs' = [NoObs EXCEPT !.kind = "send", !.session = s]
    /\ UNCHANGED <<sessVars, clientVars, varlog, nframes, nvars, histVars, tokenVars,
                   pending, cache, app, active>>

\* The read task reads PIN: handle_command calls session.send(Pong).
event_loop_Ping(s) ==
    /\ pc[s] = "running"
    /\ nframes < MaxFrames + MaxPings
    /\ Cardinality({i \in 1..Len(wire[s]) : wire[s][i] = Pong}) < MaxPings
    /\ pc' = [pc EXCEPT ![s] = "answering"]
    /\ write' = [write EXCEPT ![ReadTask(s)] = Awaiting(s, <<Pong>>)]
    /\ nframes' = nframes + 1
    /\ obs' = [NoObs EXCEPT !.kind = "read", !.session = s, !.frame = Ping]
    /\ UNCHANGED <<character, channels, private_messages, variables, last_err, wire,
                   reconnect_of, clientVars, varlog, nvars, histVars, tokenVars, pending,
                   cache, app, active>>

\* session.rs:93-108  Session::reconnect up to `session.write.lock().await`:
\* the new Session is built and its event loop spawned.
Session_reconnect_spawn(s) ==
    /\ pc[s] = "negotiate"
    /\ reconnect_of[s] # 0
    /\ write["dispatcher"].pc = "idle"
    /\ \E next \in NonVarFrames, order \in Rejoin(channels[reconnect_of[s]]) :
        /\ write' = [write EXCEPT !["dispatcher"] = Awaiting(s, RejoinFrames(order))]
        /\ obs' = [NoObs EXCEPT !.kind = "negotiated", !.session = s, !.frame = next,
                                !.old_channels = channels[reconnect_of[s]]]
    /\ pc' = [pc EXCEPT ![s] = "running"]
    /\ channels' = [channels EXCEPT ![s] = {}]
    /\ private_messages' = [private_messages EXCEPT ![s] = NoPMs]
    /\ last_err' = [last_err EXCEPT ![s] = Other]
    /\ UNCHANGED <<character, variables, wire, reconnect_of, clientVars, varlog, nframes,
                   nvars, histVars, tokenVars, pending, cache, app, active>>

\* lock().await returning the guard.
Lock(w) ==
    /\ write[w].pc = "lock"
    /\ Free(write[w].session)
    /\ write' = [write EXCEPT ![w].pc = "locked"]
    /\ obs' = [NoObs EXCEPT !.kind = "lock", !.session = write[w].session]
    /\ UNCHANGED <<sessVars, clientVars, varlog, nframes, nvars, histVars, tokenVars,
                   pending, cache, app, active>>

\* The guard's holder writes its next frame.  Only the feed of reconnect
\* is followed here into its failure: `?` returns Err out of the loop, the
\* guard goes with the frame, and the Reconnect arm drops the old session
\* and calls session_error.
Feed(w) ==
    /\ write[w].pc = "locked"
    /\ write[w].frames # <<>>
    /\ \E write_ok \in BOOLEAN :
       LET s == write[w].session IN
        IF write_ok
        THEN /\ wire' = [wire EXCEPT ![s] = Append(@, Head(write[w].frames))]
             /\ write' = [write EXCEPT ![w].frames = Tail(@)]
             /\ obs' = [NoObs EXCEPT !.kind = "feed", !.session = s]
             /\ UNCHANGED <<sessions, dispatcher, reconnect_err>>
        ELSE /\ w = "dispatcher"
             /\ write' = [write EXCEPT ![w] = NoWrite]
             /\ sessions' = drop_session(sessions, character[reconnect_of[s]])
             /\ dispatcher' = "idle"
             /\ reconnect_err' = reconnect_err \cup {s}
             /\ obs' = [NoObs EXCEPT
                          !.kind = "reconnect", !.session = s, !.result = "WebsocketError",
                          !.calls = ReconnectErrCalls(reconnect_of[s], "WebsocketError")]
             /\ wire' = wire
    /\ UNCHANGED <<pc, character, channels, private_messages, variables, last_err,
                   reconnect_of, queue, disconnects, varlog, nframes, nvars, recent_err,
                   inserted, tokenVars, pending, cache, app, active>>

\* The guard is dropped: send returns (to the application, or to the Ping
\* arm, which returns Ok(false)); reconnect flushes, drops the guard and
\* returns Ok(session), and the Reconnect arm swaps the sessions.
Unlock(w) ==
    /\ write[w].pc = "locked"
    /\ write[w].frames = <<>>
    /\ LET s == write[w].session IN
        /\ write' = [write EXCEPT ![w] = IF w \in {"application", "application2"}
                                         THEN [NoWrite EXCEPT !.pc = "done"]
                                         ELSE NoWrite]
        /\ pc' = IF w = ReadTask(s) THEN [pc EXCEPT ![s] = "running"] ELSE pc
        /\ sessions' = IF w = "dispatcher"
                       THEN Append(drop_session(sessions, character[reconnect_of[s]]), s)
                       ELSE sessions
        /\ dispatcher' = IF w = "dispatcher" THEN "idle" ELSE dispatcher
        /\ obs' = [NoObs EXCEPT !.kind = "unlock", !.session = s,
                                !.calls = IF w = "dispatcher"
                                          THEN << Call("sessions_updated", 0) >>
                                          ELSE <<>>]
    /\ UNCHANGED <<character, channels, private_messages, variables, last_err, wire,
                   reconnect_of, queue, disconnects, varlog, nframes, nvars, histVars,
                   tokenVars, pending, cache, app, active>>

\* The server's echoes of the session's own joins.
JoinEchoes == {JoinedChannel(ch, c) : ch \in Channels, c \in OwnCharacters}

NextWrite ==
    \/ \E c \in OwnCharacters : Client_connect(c)
    \/ \E s \in SessIds : connect_internal(s)
    \/ \E s \in SessIds : Session_connect(s)
    \/ \E s \in SessIds : event_loop(s, JoinEchoes)
    \/ \E s \in SessIds : event_loop_Ping(s)
    \/ \E s \in SessIds : ResetWithoutClosingHandshake(s)
    \/ dispatch
    \/ dispatch_Reconnect
    \/ \E s \in SessIds : Session_reconnect_spawn(s)
    \/ \E w \in Writers, s \in SessIds : Session_send(w, s)
    \/ \E w \in Writers : Lock(w)
    \/ \E w \in Writers : Feed(w)
    \/ \E w \in Writers : Unlock(w)

SpecWrite == Init /\ [][NextWrite]_vars

Adjacent(q, cmd) ==
    \A i, j, k \in 1..Len(q) :
        i < j /\ j < k /\ q[i].cmd = cmd /\ q[k].cmd = cmd => q[j].cmd = cmd

\* C35: the writes on one session's socket are mutually exclusive: at most
\* one task holds the write half at a time, the JCH frames of reconnect's
\* batch lie next to each other on the wire with no Pong and no frame of a
\* send between them, and the writers never deadlock: whenever a task awaits
\* the write half, either it is free or its holder can take its next step.
C35_WritersExcludeEachOther ==
    \A s \in SessIds :
        /\ Cardinality(Holders(s)) <= 1
        /\ Adjacent(wire[s], "JCH")
        /\ \A w \in Writers :
            write[w].pc = "lock" /\ write[w].session = s =>
                \/ Holders(s) = {}
                \/ \E h \in Holders(s) : ENABLED (Feed(h) \/ Unlock(h))

C35_Witness ==
    \E s \in SessIds :
        /\ Cardinality({i \in 1..Len(wire[s]) : wire[s][i].cmd = "JCH"}) = 2
        /\ \E i \in 1..Len(wire[s]) : wire[s][i] = Pong
        /\ Holders(s) = {"application"}
        /\ write["application2"] = Awaiting(s, <<ClientFrame("MSG", "Frontpage", None)>>)

(***************************************************************************)
(* Client::connect at the grain of its tasks: Session::connect spawns the  *)
(* session's read task (tokio::spawn) and returns; only then does          *)
(* Client::connect take the list's lock and push.  The read task and the   *)
(* dispatcher are tasks of their own and run in between.                   *)
(***************************************************************************)
\* session.rs:72-89  Session::connect from the frame that ends
\* read_variables to start_event_loop: the session exists, its loop runs.
Session_connect_spawn(s) ==
    /\ pc[s] = "negotiate"
    /\ reconnect_of[s] = 0
    /\ app = Idle
    /\ \E next \in NonVarFrames :
        obs' = [NoObs EXCEPT !.kind = "negotiated", !.session = s, !.frame = next,
                             !.result = "ok"]
    /\ pc' = [pc EXCEPT ![s] = "running"]
    /\ channels' = [channels EXCEPT ![s] = {}]
    /\ private_messages' = [private_messages EXCEPT ![s] = NoPMs]
    /\ last_err' = [last_err EXCEPT ![s] = Other]
    /\ app' = [op |-> "connect", pc |-> "push", arg |-> <<s>>, ret |-> <<>>]
    /\ UNCHANGED <<character, variables, wire, reconnect_of, clientVars, varlog, nframes,
                   nvars, histVars, tokenVars, pending, cache, active, write>>

\* client.rs:195-197  self.sessions.write().push(session); Ok(())
Client_connect_push ==
    /\ app.op = "connect"
    /\ app.pc = "push"
    /\ sessions' = Append(sessions, app.arg[1])
    /\ app' = Idle
    /\ obs' = [NoObs EXCEPT !.kind = "connected", !.session = app.arg[1], !.result = "ok"]
    /\ UNCHANGED <<sessVars, queue, dispatcher, disconnects, varlog, nframes, nvars,
                   histVars, tokenVars, pending, cache, active, write>>

NextConnect ==
    \/ \E c \in OwnCharacters : Client_connect(c)
    \/ \E s \in SessIds : connect_internal(s)
    \/ \E s \in SessIds : read_variables(s, LeanVarFrames)
    \/ \E s \in SessIds : Session_connect_spawn(s)
    \/ Client_connect_push
    \/ \E s \in SessIds : start_event_loop(s)
    \/ dispatch_callback
    \/ dispatch

SpecConnect == Init /\ [][NextConnect]_vars

\* C36: whenever the dispatcher calls a listener callback with a session
\* for a forwarded command (raw_command first of all), that session is on
\* the client's list.
C36_CallbackSessionIsListed ==
    obs.kind = "dispatch" /\ obs.emitted = "Command" =>
        \A i \in 1..Len(obs.calls) :
            obs.calls[i].session # 0 => Listed(obs.calls[i].session)

\* The dispatcher is, in this step, in the arm of the closing event of t:
\* it takes the event off the channel, or it is inside t.reconnect(...).
HandlesCloseOf(t) ==
    \/ /\ dispatcher = "idle"
       /\ queue # <<>> /\ queue' = Tail(queue)
       /\ Closing(Head(queue)) /\ Head(queue).session = t
    \/ /\ dispatcher = "reconnecting"
       /\ \E n \in SessIds : pc[n] \in {"identify", "negotiate"} /\ reconnect_of[n] = t

\* C37: dispatching the Disconnected or Reconnect event of a session takes
\* only that session off the client's list: every other session, a live
\* session of the same character included, stays on it.
C37_DropsOnlyTheClosedSession ==
    [][\A t \in SessIds : Listed(t) /\ ~Listed(t)' => HandlesCloseOf(t)]_vars

(***************************************************************************)
(* A chain of reconnects: one connect, the echoes of the session's joins,  *)
(* transport resets, and each replacement replaced in its turn.            *)
(***************************************************************************)
NextChain ==
    \/ \E c \in OwnCharacters : Client_connect(c)
    \/ \E s \in SessIds : connect_internal(s)
    \/ \E s \in SessIds : Session_connect(s)
    \/ \E s \in SessIds : Session_reconnect(s)
    \/ \E s \in SessIds : event_loop(s, JoinEchoes)
    \/ \E s \in SessIds : ResetWithoutClosingHandshake(s)
    \/ dispatch
    \/ dispatch_Reconnect_upto(MaxChain)

SpecChain == Init /\ [][NextChain]_vars

\* The session a chain of reconnects started from.
RECURSIVE Root(_)
Root(s) == IF reconnect_of[s] = 0 THEN s ELSE Root(reconnect_of[s])

\* C38: joined channels survive any number of reconnects in a row: every
\* reconnect along a chain s0 -> s1 -> s2 that returns a session feeds a JCH
\* for every channel s0 had joined and not left when its transport reset,
\* whether or not the server had echoed the joins of the session in between.
C38_RejoinAlongTheChain ==
    obs.kind = "reconnect" /\ obs.result = "ok" =>
        \A ch \in channels[Root(obs.session)] :
            \E i \in 1..Len(obs.fed) : obs.fed[i] = JoinChannel(ch)

\* C39: once a reconnect has returned an error, nothing of the socket it
\* had opened reaches the listener: the dispatcher handles no Command,
\* Error, Reconnect or Disconnected event of a session built by that
\* reconnect.
C39_FailedReplacementIsSilent ==
    [][\A s \in reconnect_err :
        ~(/\ dispatcher = "idle"
          /\ queue # <<>> /\ queue' = Tail(queue)
          /\ Head(queue).session = s)]_vars

(***************************************************************************)
(* Client::dispatch, the BridgeEvent (RTB) arm of Command: raw_command,    *)
(* then by type a bookmark added or removed in the cache, the friends and  *)
(* bookmarks fetched anew (sync_friends_bookmarks().await.unwrap()), or    *)
(* nothing.                                                                *)
(*   fetch_ok, list_ok: the ticket endpoint and the friends-list endpoint  *)
(*   answer;  r1, r2: the cache's answers ("changed?").                    *)
(***************************************************************************)
BridgeTypes == {"trackadd", "trackrm", "friendadd", "friendremove", "friendrequest"}
BridgeEvent(type, name) == [Frame("RTB") EXCEPT !.status = type, !.character = name]
BridgeFrames == {BridgeEvent(type, "Carol") : type \in BridgeTypes}

add_bookmark(c, name) == [c EXCEPT !.bookmarks = Append(@, name)]
remove_bookmark(c, name) == [c EXCEPT !.bookmarks = SelectSeq(@, LAMBDA b : b # name)]

\* .unwrap() on the Err of sync_friends_bookmarks: the dispatcher's task ends.
SyncFailure(s) == [dispatcher |-> "dead", calls |-> <<>>]

dispatch_BridgeEvent ==
    /\ dispatcher = "idle"
    /\ queue # <<>>
    /\ Head(queue).event = "Command"
    /\ Head(queue).command.cmd = "RTB"
    /\ pending' = Delivered(Head(queue))
    /\ queue' = Tail(queue)
    /\ active' = [active EXCEPT !["dispatcher"] = None]
    /\ \E fetch_ok, list_ok, r1, r2 \in BOOLEAN, list \in FriendListResponses :
       LET s == Head(queue).session
           f == Head(queue).command
           raw == << RawCommandCall(s, f) >>
           r == refresh_fast(fetch_ok)
       IN
        CASE f.status \in {"trackadd", "trackrm"} ->
                /\ cache' = IF ~r1 THEN cache
                            ELSE IF f.status = "trackadd" THEN add_bookmark(cache, f.character)
                            ELSE remove_bookmark(cache, f.character)
                /\ obs' = [NoObs EXCEPT
                             !.kind = "dispatch", !.session = s, !.emitted = "Command",
                             !.frame = f,
                             !.calls = raw \o Gated(r1, Call("updated_bookmarks", 0))]
                /\ UNCHANGED <<dispatcher, token, issued>>
          [] f.status \in {"friendadd", "friendremove"} ->
                /\ r.asked => issued < MaxTickets
                /\ token' = r.token
                /\ issued' = r.issued
                /\ IF r.result # "ok" \/ ~list_ok
                   THEN /\ dispatcher' = SyncFailure(s).dispatcher
                        /\ cache' = cache
                        /\ obs' = [NoObs EXCEPT
                                     !.kind = "dispatch", !.session = s,
                                     !.emitted = "Command", !.frame = f,
                                     !.result = "RequestError", !.asked = r.asked,
                                     !.calls = raw \o SyncFailure(s).calls]
                   ELSE /\ dispatcher' = dispatcher
                        /\ cache' = Fetched(list)
                        /\ obs' = [NoObs EXCEPT
                                     !.kind = "dispatch", !.session = s,
                                     !.emitted = "Command", !.frame = f,
                                     !.result = "ok", !.asked = r.asked,
                                     !.calls = raw \o Gated(r1, Call("updated_bookmarks", 0))
                                                   \o Gated(r2, Call("updated_friends", 0))]
          [] OTHER ->
                /\ obs' = [NoObs EXCEPT
                             !.kind = "dispatch", !.session = s, !.emitted = "Command",
                             !.frame = f, !.calls = raw]
                /\ UNCHANGED <<cache, dispatcher, token, issued>>
    /\ UNCHANGED <<sessVars, sessions, disconnects, varlog, nframes, nvars, histVars, now,
                   app, write>>

NextLoop ==
    \/ Tick
    \/ \E c \in OwnCharacters : Client_connect(c)
    \/ \E s \in SessIds : connect_internal(s)
    \/ \E s \in SessIds : Session_connect(s)
    \/ \E s \in SessIds : Session_reconnect(s)
    \/ \E s \in SessIds : event_loop(s, BridgeFrames)
    \/ \E s \in SessIds : ResetWithoutClosingHandshake(s)
    \/ dispatch_callback
    \/ dispatch_BridgeEvent
    \/ dispatch_Reconnect

SpecLoop == Init /\ [][NextLoop]_vars

\* C40: the dispatch loop never halts: the task running Client::start goes
\* on taking events off the channel whatever the handling of an event met,
\* a failed ticket refresh while handling a Reconnect and a failed fetch of
\* the friends list while handling an RTB friendadd or friendremove
\* included, so no event is left on the channel of a loop that has ended.
C40_DispatchLoopNeverHalts == dispatcher # "dead"
====
